---- MODULE Spec2Model ----
(***************************************************************************)
(* Result rendering of vscode-sql-explorer: the virtual-scrolling grid     *)
(* (class ResultsGrid, media/webview/components/results-grid.ts) and the   *)
(* bottom-panel renderer (media/results-panel.js).                         *)
(*                                                                         *)
(* Text is a sequence of one-character strings, so that escaping, parsing  *)
(* and substring classification are computed, not assumed.                 *)
(* A JavaScript number is kept exactly as sign, two decimal limbs of six   *)
(* digits (hi * 10^6 + lo) and ten-thousandths (frac): the model checker's *)
(* integers are 32 bits wide and the code compares against 1e12.           *)
(***************************************************************************)
EXTENDS Integers, Sequences, FiniteSets, TLC

VARIABLES variant, env, grid, panel, event, call, app

vars == <<variant, env, grid, panel, event, call, app>>

(***************************************************************************)
(* Bounds of the model.                                                    *)
(***************************************************************************)
\* rows of the large result sets (more than the static threshold of 100)
BigRows == 130
\* distance between two scroll offsets the scroll events deliver
ScrollStep == 424
\* largest scroll offset / row count the window computation is applied to
MaxScrollTop == 700
MaxRowCount == 40
\* largest column width a drag is followed to (ResultsGrid has no upper
\* limit in the code) and most listener pairs followed on the document
MaxDragWidth == 300
MaxListeners == 2
\* how far below and above 100 rows the result sets around the static
\* threshold go
ThresholdSpan == 5
\* most rows beyond the first hundred in the result sets that are sized
MaxTail == 1

Limb == 10^6

Max(a, b) == IF a >= b THEN a ELSE b
Min(a, b) == IF a <= b THEN a ELSE b
\* Math.floor(a / b) and Math.ceil(a / b) for b > 0
Floor(a, b) == a \div b
Ceil(a, b) == -((-a) \div b)

(***************************************************************************)
(* Text.                                                                   *)
(***************************************************************************)
DigitChars == <<"0","1","2","3","4","5","6","7","8","9">>

RECURSIVE Digits(_)
Digits(n) == IF n < 10 THEN <<DigitChars[n + 1]>>
             ELSE Digits(n \div 10) \o Digits(n % 10)

RECURSIVE PadLeft(_, _)
PadLeft(t, w) == IF Len(t) >= w THEN t ELSE PadLeft(<<"0">> \o t, w)

\* decimal digits of the magnitude of the integer part of a number
IntDigits(v) == IF v.hi = 0 THEN Digits(v.lo)
                ELSE Digits(v.hi) \o PadLeft(Digits(v.lo), 6)

\* digit grouping of Number.prototype.toLocaleString (en-US): a comma
\* before every group of three digits counted from the right
RECURSIVE Group3(_)
Group3(d) == IF Len(d) <= 3 THEN d
             ELSE Group3(SubSeq(d, 1, Len(d) - 3)) \o <<",">> \o SubSeq(d, Len(d) - 2, Len(d))

RECURSIVE TrimZeros(_, _)
TrimZeros(d, keep) == IF Len(d) > keep /\ d[Len(d)] = "0"
                      THEN TrimZeros(SubSeq(d, 1, Len(d) - 1), keep) ELSE d

Sign(v) == IF v.neg THEN <<"-">> ELSE <<>>

IsInteger(v) == v.frac = 0

\* String.prototype.includes
Includes(hay, needle) ==
    \E i \in 0..(Len(hay) - Len(needle)) : SubSeq(hay, i + 1, i + Len(needle)) = needle

Letters == <<"a","b","c","d","e","f","g","h","i","j","k","l","m",
             "n","o","p","q","r","s","t","u","v","w","x","y","z">>
Capitals == <<"A","B","C","D","E","F","G","H","I","J","K","L","M",
              "N","O","P","Q","R","S","T","U","V","W","X","Y","Z">>

LetterIndex(c, alphabet) == CHOOSE i \in 1..26 : alphabet[i] = c
UpperMap == [c \in {Letters[i] : i \in 1..26} |-> Capitals[LetterIndex(c, Letters)]]
LowerMap == [c \in {Capitals[i] : i \in 1..26} |-> Letters[LetterIndex(c, Capitals)]]
UpperChar(c) == IF c \in DOMAIN UpperMap THEN UpperMap[c] ELSE c
LowerChar(c) == IF c \in DOMAIN LowerMap THEN LowerMap[c] ELSE c
toUpperCase(t) == [i \in 1..Len(t) |-> UpperChar(t[i])]
toLowerCase(t) == [i \in 1..Len(t) |-> LowerChar(t[i])]

RECURSIVE Concat(_)
Concat(ss) ==
    IF ss = <<>> THEN <<>>
    ELSE IF Len(ss) = 1 THEN ss[1]
    ELSE LET half == Len(ss) \div 2
         IN Concat(SubSeq(ss, 1, half)) \o Concat(SubSeq(ss, half + 1, Len(ss)))

(***************************************************************************)
(* Cell values (CellValue = unknown in the source).                        *)
(***************************************************************************)
Null == [kind |-> "null"]
Undefined == [kind |-> "undefined"]
\* the number (-1)^neg * (hi * 10^6 + lo + frac / 10^4)
Number(neg, hi, lo, frac) == [kind |-> "number", neg |-> neg, hi |-> hi, lo |-> lo, frac |-> frac]
IntNum(n) == Number(FALSE, 0, n, 0)
String(s) == [kind |-> "string", s |-> s]
\* a Date object holding the integral epoch milliseconds (-1)^neg * (hi * 10^6 + lo)
Date(neg, hi, lo) == [kind |-> "date", neg |-> neg, hi |-> hi, lo |-> lo]
\* any other object: json is what JSON.stringify returns unless it throws
\* (cyclic structure, nested BigInt), str is what String(value) returns,
\* toJSON tells whether the object has a toJSON method
Object(json, jsonThrows, toJSON, str) ==
    [kind |-> "object", json |-> json, jsonThrows |-> jsonThrows, toJSON |-> toJSON, str |-> str]

IsNullish(value) == value.kind \in {"null", "undefined"}

NULL == <<"N","U","L","L">>
ObjectObject == <<"[","o","b","j","e","c","t"," ","O","b","j","e","c","t","]">>

\* value > 1e12
GreaterThan1e12(value) ==
    /\ ~value.neg
    /\ \/ value.hi > Limb
       \/ value.hi = Limb /\ (value.lo > 0 \/ value.frac > 0)

\* |value| > 1e12
MagnitudeGreaterThan1e12(value) == GreaterThan1e12([value EXCEPT !.neg = FALSE])

\* The argument of the Date constructor, value > 1e12 ? value / 1000 : value,
\* kept as the exact quotient num / div.
DateArg(value) ==
    IF GreaterThan1e12(value) THEN [num |-> value, div |-> 1000]
                              ELSE [num |-> value, div |-> 1]

\* new Date(x): the time value is x truncated to integral milliseconds
NewDate(arg) ==
    IF arg.div = 1 THEN Date(arg.num.neg, arg.num.hi, arg.num.lo)
    ELSE Date(arg.num.neg, arg.num.hi \div 1000,
              (arg.num.hi % 1000) * 1000 + arg.num.lo \div 1000)

\* Date.prototype.toLocaleString: the locale text is environment-defined;
\* it is represented by the instant it denotes, written "@" and the epoch
\* milliseconds (one text per instant, no markup character).
DateToLocaleString(d) == <<"@">> \o Sign(d) \o IntDigits(d)

\* Number.prototype.toString of a number of magnitude below 1e21
NumberToString(v) ==
    Sign(v) \o IntDigits(v) \o
    (IF IsInteger(v) THEN <<>> ELSE <<".">> \o TrimZeros(PadLeft(Digits(v.frac), 4), 0))
\* Number.prototype.toFixed(4)
toFixed4(v) == Sign(v) \o IntDigits(v) \o <<".">> \o PadLeft(Digits(v.frac), 4)
\* Number.prototype.toLocaleString()
NumberToLocaleString(v) == Sign(v) \o Group3(IntDigits(v))
\* toLocaleString(undefined, {minimumFractionDigits: 2, maximumFractionDigits: 4})
NumberToLocaleFraction(v) ==
    Sign(v) \o Group3(IntDigits(v)) \o <<".">> \o TrimZeros(PadLeft(Digits(v.frac), 4), 2)

\* String(value) for a value that is not null or undefined
StringOf(value) ==
    CASE value.kind = "string" -> value.s
      [] value.kind = "number" -> NumberToString(value)
      [] value.kind = "date" -> DateToLocaleString(value)
      [] value.kind = "object" -> value.str

(***************************************************************************)
(* Type labels and their classification.                                   *)
(***************************************************************************)
numericTypes == {<<"I","N","T","E","G","E","R">>, <<"B","I","G","I","N","T">>,
                 <<"D","O","U","B","L","E">>, <<"F","L","O","A","T">>,
                 <<"D","E","C","I","M","A","L">>, <<"N","U","M","E","R","I","C">>,
                 <<"R","E","A","L">>}

\* ResultsGrid.isNumericType
GridIsNumericType(type) == \E t \in numericTypes : Includes(toUpperCase(type), t)

\* isNumericType of the results panel; NoType stands for an undefined type
NoType == <<"undefined">>
PanelIsNumericType(type) ==
    IF type = NoType \/ type = <<>> THEN FALSE
    ELSE LET t == toLowerCase(type)
         IN \/ Includes(t, <<"i","n","t">>) \/ Includes(t, <<"f","l","o","a","t">>)
            \/ Includes(t, <<"d","o","u","b","l","e">>) \/ Includes(t, <<"d","e","c","i","m","a","l">>)
            \/ Includes(t, <<"n","u","m","e","r","i","c">>) \/ Includes(t, <<"r","e","a","l">>)

IsTemporalType(type) ==
    LET typeUpper == IF type = NoType THEN <<>> ELSE toUpperCase(type)
    IN Includes(typeUpper, <<"D","A","T","E">>)
       \/ Includes(typeUpper, <<"T","I","M","E","S","T","A","M","P">>)

(***************************************************************************)
(* formatValue of the two renderers.                                       *)
(***************************************************************************)
\* ResultsGrid.formatValue; it catches the failure of JSON.stringify
GridFormatValue(value, type) ==
    IF IsNullish(value) THEN NULL
    ELSE IF IsTemporalType(type) /\ value.kind = "number"
         THEN DateToLocaleString(NewDate(DateArg(value)))
    ELSE IF value.kind = "date" THEN DateToLocaleString(value)
    ELSE IF value.kind = "object"
         THEN IF value.toJSON THEN StringOf(value)
              ELSE IF value.jsonThrows THEN StringOf(value) ELSE value.json
    ELSE IF value.kind = "number"
         THEN IF IsInteger(value) THEN NumberToLocaleString(value)
              ELSE NumberToLocaleFraction(value)
    ELSE StringOf(value)

\* JSON.stringify of a Date: its quoted ISO text, represented by the instant
DateToJSON(d) == <<"\"">> \o DateToLocaleString(d) \o <<"\"">>

\* formatValue of the results panel throws when JSON.stringify throws
PanelFormatThrows(value) == value.kind = "object" /\ value.jsonThrows

PanelFormatValue(value, type) ==
    IF IsNullish(value) THEN NULL
    ELSE IF value.kind = "date" THEN DateToJSON(value)
    ELSE IF value.kind = "object" THEN value.json
    ELSE IF value.kind = "number"
         THEN IF IsInteger(value) THEN NumberToString(value) ELSE toFixed4(value)
    ELSE StringOf(value)

(***************************************************************************)
(* The display surface: escaping, and what the HTML parser makes of a      *)
(* string assigned to innerHTML.                                           *)
(***************************************************************************)
EscapeChar(c) ==
    CASE c = "&" -> <<"&","a","m","p",";">>
      [] c = "<" -> <<"&","l","t",";">>
      [] c = ">" -> <<"&","g","t",";">>
      [] OTHER -> <<c>>

\* escapeHtml: div.textContent = text; return div.innerHTML
escapeHtmlIdentity(text) == text
escapeHtml(text) == Concat([i \in 1..Len(text) |-> EscapeChar(text[i])])

IsTagStart(c) == c \in {"/", "!", "?"} \/ c \in DOMAIN UpperMap \/ c \in DOMAIN LowerMap

StartsWithAt(h, i, p) == i + Len(p) - 1 <= Len(h) /\ SubSeq(h, i, i + Len(p) - 1) = p

RECURSIVE SkipTag(_, _)
SkipTag(h, i) == IF i > Len(h) THEN i ELSE IF h[i] = ">" THEN i + 1 ELSE SkipTag(h, i + 1)

\* Parsing an HTML fragment as element content: text is the text content
\* of the result, markup tells whether the parser opened any tag.
RECURSIVE ParseFrom(_, _)
ParseFrom(h, i) ==
    IF i > Len(h) THEN [text |-> <<>>, markup |-> FALSE]
    ELSE IF h[i] = "<" /\ i < Len(h) /\ IsTagStart(h[i + 1])
         THEN [ParseFrom(h, SkipTag(h, i)) EXCEPT !.markup = TRUE]
    ELSE IF StartsWithAt(h, i, <<"&","a","m","p",";">>)
         THEN LET r == ParseFrom(h, i + 5) IN [r EXCEPT !.text = <<"&">> \o @]
    ELSE IF StartsWithAt(h, i, <<"&","l","t",";">>)
         THEN LET r == ParseFrom(h, i + 4) IN [r EXCEPT !.text = <<"<">> \o @]
    ELSE IF StartsWithAt(h, i, <<"&","g","t",";">>)
         THEN LET r == ParseFrom(h, i + 4) IN [r EXCEPT !.text = <<">">> \o @]
    ELSE LET \* the run of characters up to the next "<" or "&"
             stops == {k \in (i + 1)..Len(h) : h[k] \in {"<", "&"}}
             j == IF stops = {} THEN Len(h) + 1 ELSE CHOOSE k \in stops : \A m \in stops : k <= m
             r == ParseFrom(h, j)
         IN [r EXCEPT !.text = SubSeq(h, i, j - 1) \o @]

\* element.innerHTML = html
SetInnerHTML(html) == ParseFrom(html, 1)
\* element.textContent = text
SetTextContent(text) == [text |-> text, markup |-> FALSE]

(***************************************************************************)
(* Program constants.                                                      *)
(***************************************************************************)
rowHeight == 32
bufferRows == 10
headerHeight == 40
ROW_HEIGHT == 32
BUFFER_ROWS == 10
\* width of one glyph of the measuring font (ambient font metrics)
GlyphWidth == 8

(***************************************************************************)
(* The visible window.                                                     *)
(***************************************************************************)
\* ResultsGrid.updateVisibleRows: firstVisible, lastVisible (inclusive)
GridWindowNoBuffer(scrollTop, viewportHeight, rowCount) ==
    [firstVisible |-> Max(0, Floor(scrollTop - headerHeight, rowHeight)),
     lastVisible |-> Min(rowCount - 1,
                         Ceil(scrollTop - headerHeight + viewportHeight, rowHeight))]
GridWindow(scrollTop, viewportHeight, rowCount) ==
    [firstVisible |-> Max(0, Floor(scrollTop - headerHeight, rowHeight) - bufferRows),
     lastVisible |-> Min(rowCount - 1,
                         Ceil(scrollTop - headerHeight + viewportHeight, rowHeight) + bufferRows)]

\* updateVisibleRows of the results panel: startIndex, endIndex (exclusive)
PanelWindowWide(scrollTop, containerHeight, rowCount) ==
    [startIndex |-> Max(0, Floor(scrollTop, ROW_HEIGHT) - BUFFER_ROWS),
     endIndex |-> Min(rowCount, Ceil(scrollTop + containerHeight, ROW_HEIGHT) + 2 * BUFFER_ROWS)]
PanelWindow(scrollTop, containerHeight, rowCount) ==
    [startIndex |-> Max(0, Floor(scrollTop, ROW_HEIGHT) - BUFFER_ROWS),
     endIndex |-> Min(rowCount, Ceil(scrollTop + containerHeight, ROW_HEIGHT) + BUFFER_ROWS)]

(***************************************************************************)
(* Result sets.                                                            *)
(***************************************************************************)
Column(name, type) == [name |-> name, type |-> type]
Result(columns, rows) == [columns |-> columns, rows |-> rows]

INTEGER == <<"I","N","T","E","G","E","R">>
VARCHAR == <<"V","A","R","C","H","A","R">>
TIMESTAMP == <<"T","I","M","E","S","T","A","M","P">>
Alice == <<"A","l","i","c","e">>
\* a value with control markup, <img src=x onerror=alert(1)> in short
ImgTag == <<"<","i","m","g"," ","o","n","e","r","r","o","r","=","x",">">>
\* a value that already looks like an escaped entity
LtEntity == <<"&","l","t",";">>
LongText == [i \in 1..40 |-> "w"]
PlainObject == Object(<<"{","\"","a","\"",":","1","}">>, FALSE, FALSE, ObjectObject)
CyclicObject == Object(<<>>, TRUE, FALSE, ObjectObject)

\* columns [{id INTEGER}, {name VARCHAR}], rows [[1, "Alice"], [2, null]]
ExampleResult ==
    Result(<<Column(<<"i","d">>, INTEGER), Column(<<"n","a","m","e">>, VARCHAR)>>,
           <<<<IntNum(1), String(Alice)>>, <<IntNum(2), Null>>>>)

MixedResult ==
    Result(<<Column(<<"n">>, INTEGER), Column(<<"s">>, VARCHAR), Column(<<"t">>, TIMESTAMP)>>,
           <<<<Null, String(ImgTag), Number(FALSE, 1700000, 0, 0)>>,
             <<IntNum(1234567), String(LtEntity), Null>>,
             <<Undefined, PlainObject, Undefined>>,
             <<IntNum(7), String(LongText), Number(FALSE, 2000000, 0, 0)>>,
             <<Number(TRUE, 0, 12, 5000), Null, Date(FALSE, 1700000, 0)>>>>)

\* rows shorter and longer than columns.length
RaggedResult ==
    Result(<<Column(<<"a">>, <<"I","N","T">>), Column(<<"b">>, VARCHAR)>>,
           <<<<IntNum(1), String(<<"x">>)>>,
             <<IntNum(2)>>,
             <<IntNum(3), String(<<"y">>), String(ImgTag)>>>>)

EmptyResult == Result(<<Column(<<"a">>, INTEGER)>>, <<>>)

\* an object cell whose JSON serialization fails
CyclicResult ==
    Result(<<Column(<<"o">>, VARCHAR)>>, <<<<PlainObject>>, <<CyclicObject>>>>)

BigCell(i) == IF i % 7 = 0 THEN Null
              ELSE IF i % 5 = 0 THEN String(ImgTag) ELSE String(<<"a">>)

BigResult(n) ==
    Result(<<Column(<<"i","d">>, INTEGER), Column(<<"v">>, VARCHAR)>>,
           [i \in 1..n |-> <<IntNum(i), BigCell(i)>>])

\* a large result set with a short row and a long row in every eleven
BigRaggedResult(n) ==
    Result(<<Column(<<"i","d">>, INTEGER), Column(<<"v">>, TIMESTAMP)>>,
           [i \in 1..n |-> IF i % 11 = 3 THEN <<IntNum(i)>>
                           ELSE IF i % 11 = 4 THEN <<IntNum(i), Null, String(<<"z">>)>>
                           ELSE <<IntNum(i), BigCell(i)>>])

Results == {ExampleResult, MixedResult, RaggedResult, EmptyResult, CyclicResult,
            BigResult(BigRows), BigRaggedResult(BigRows + 20)}

ErrorMessages == {<<"e","r","r">>, ImgTag}

\* rowData[colIndex] on a JavaScript array: undefined beyond its length
At(rowData, colIndex) == IF colIndex <= Len(rowData) THEN rowData[colIndex] ELSE Undefined

SetMax(S) == CHOOSE m \in S : \A x \in S : x <= m

RECURSIVE Sum(_)
Sum(ws) == IF ws = <<>> THEN 0 ELSE Head(ws) + Sum(Tail(ws))

IsRagged(result) == \E i \in 1..Len(result.rows) : Len(result.rows[i]) # Len(result.columns)

(***************************************************************************)
(* ResultsGrid (virtual-scrolling grid of the explorer webview).           *)
(***************************************************************************)
\* ctx.measureText(text).width
MeasureText(text) == Len(text) * GlyphWidth

\* ResultsGrid.calculateColumnWidths
GridCalculateColumnWidthsUnclamped(columns, rows, ctx) ==
    IF ctx = "null" THEN [c \in 1..Len(columns) |-> 150]
    ELSE [c \in 1..Len(columns) |->
            LET headerWidth == MeasureText(columns[c].name) + 60
                sampleSize == Min(100, Len(rows))
                maxDataWidth == SetMax({0} \cup
                    {MeasureText(GridFormatValue(At(rows[i], c), columns[c].type)) + 32 :
                        i \in 1..sampleSize})
            IN Max(headerWidth, maxDataWidth)]
GridCalculateColumnWidthsNoFallback(columns, rows, ctx) ==
    [c \in 1..Len(columns) |->
        LET headerWidth == (IF ctx = "null" THEN 0 ELSE MeasureText(columns[c].name)) + 60
            sampleSize == Min(100, Len(rows))
            maxDataWidth == SetMax({0} \cup
                {(IF ctx = "null" THEN 0
                  ELSE MeasureText(GridFormatValue(At(rows[i], c), columns[c].type))) + 32 :
                    i \in 1..sampleSize})
            optimalWidth == Max(headerWidth, maxDataWidth)
        IN Min(300, Max(50, optimalWidth))]
GridCalculateColumnWidths(columns, rows, ctx) ==
    IF ctx = "null" THEN [c \in 1..Len(columns) |-> 150]
    ELSE [c \in 1..Len(columns) |->
            LET headerWidth == MeasureText(columns[c].name) + 60
                sampleSize == Min(100, Len(rows))
                maxDataWidth == SetMax({0} \cup
                    {MeasureText(GridFormatValue(At(rows[i], c), columns[c].type)) + 32 :
                        i \in 1..sampleSize})
                optimalWidth == Max(headerWidth, maxDataWidth)
            IN Min(300, Max(50, optimalWidth))]

\* one cell of ResultsGrid.createRow.  A cell element records the value it
\* was built from (of), the formatted text handed to the surface (display)
\* and what the surface made of it (text, markup), with its styling.
GridCellNullAsText(value, column, width) ==
    LET displayValue == GridFormatValue(value, column.type)
        content == SetTextContent(displayValue)
    IN [class |-> "cell", of |-> value, display |-> displayValue,
        text |-> content.text, markup |-> content.markup,
        null |-> FALSE,
        numeric |-> value.kind = "number" \/ GridIsNumericType(column.type),
        width |-> width]
GridCell(value, column, width) ==
    LET isNull == IsNullish(value)
        displayValue == IF isNull THEN NULL ELSE GridFormatValue(value, column.type)
        content == SetTextContent(displayValue)
    IN [class |-> "cell", of |-> value, display |-> displayValue,
        text |-> content.text, markup |-> content.markup,
        null |-> isNull,
        numeric |-> ~isNull /\ (value.kind = "number" \/ GridIsNumericType(column.type)),
        width |-> width]

\* ResultsGrid.createRow(index), index counted from 0
createRow(g, index) ==
    LET rowData == g.rows[index + 1]
    IN [index |-> index, top |-> index * rowHeight, width |-> Sum(g.columnWidths),
        cells |-> [c \in 1..Len(g.columns) |->
                      GridCell(At(rowData, c), g.columns[c], g.columnWidths[c])]]

\* ResultsGrid.createHeader: the name is escaped, the type badge is not
GridHeaderCell(column, width) ==
    LET name == SetInnerHTML(escapeHtml(column.name))
        type == SetInnerHTML(column.type)
    IN [class |-> "header", text |-> name.text, type |-> type.text,
        markup |-> name.markup \/ type.markup, width |-> width]

createHeader(g) == [c \in 1..Len(g.columns) |-> GridHeaderCell(g.columns[c], g.columnWidths[c])]

BlankSurface == [mode |-> "blank", header |-> <<>>, body |-> <<>>, height |-> 0,
                 width |-> 0, message |-> <<>>, markup |-> FALSE]

\* ResultsGrid.showEmpty: the message is inserted as markup
GridEmptySurface(message) ==
    LET m == SetInnerHTML(message)
    IN [BlankSurface EXCEPT !.mode = "empty", !.message = m.text, !.markup = m.markup]

\* the rows updateVisibleRows appends to the grid body
GridBodyRows(g, w) ==
    [k \in 1..Max(0, w.lastVisible - w.firstVisible + 1) |-> createRow(g, w.firstVisible + k - 1)]

\* ResultsGrid.updateVisibleRows on the attached scroll container
GridUpdateVisibleRows(g, clientHeight) ==
    LET w == GridWindow(g.scrollTop, clientHeight, Len(g.rows))
    IN IF g.scrollContainer = "null" \/ g.gridBody = "null" THEN g
       ELSE IF w.firstVisible = g.visibleStart /\ w.lastVisible = g.visibleEnd THEN g
       ELSE [g EXCEPT !.visibleStart = w.firstVisible, !.visibleEnd = w.lastVisible,
                      !.surface.body = GridBodyRows(g, w), !.domWrites = 1]

\* container.innerHTML = ...: an element that was in the container is no
\* longer in the document
StayAttached(ref) == ref
Detach(ref) == IF ref = "attached" THEN "detached" ELSE ref

GridInit ==
    [columns |-> <<>>, rows |-> <<>>, visibleStart |-> 0, visibleEnd |-> 0,
     columnWidths |-> <<>>, scrollContainer |-> "null", gridBody |-> "null",
     dragStartIndex |-> -1, dragStartX |-> 0, dragStartWidth |-> 0,
     listening |-> FALSE, downloadEnabled |-> FALSE,
     scrollTop |-> 0, surface |-> BlankSurface, domWrites |-> 0]
\* listening: handleMouseMove and handleMouseUp are attached to the document
\* downloadEnabled: the download buttons SqlExplorerApp.executeQuery switches
\* domWrites: how many times the last handler replaced the row elements of
\* the display surface (what a MutationObserver of the surface would count)

\* ResultsGrid.render(result)
GridRenderState(g, result, e) ==
    LET g1 == [g EXCEPT !.columns = result.columns, !.rows = result.rows,
                        !.columnWidths = GridCalculateColumnWidths(result.columns, result.rows, e.ctx),
                        !.visibleStart = -1, !.visibleEnd = -1, !.domWrites = 1]
    IN IF Len(result.rows) = 0
       THEN [g1 EXCEPT !.surface = GridEmptySurface(<<"N","o"," ","r","e","s","u","l","t","s">>),
                       !.scrollContainer = Detach(@), !.gridBody = Detach(@)]
       ELSE GridUpdateVisibleRows(
                [g1 EXCEPT !.scrollContainer = "attached", !.gridBody = "attached",
                           !.scrollTop = 0,
                           !.surface = [BlankSurface EXCEPT
                                          !.mode = "grid",
                                          !.header = createHeader(g1),
                                          !.width = Sum(g1.columnWidths),
                                          !.height = Len(result.rows) * rowHeight]],
                e.clientHeight)

\* largest scroll offset of the grid's scroll container
GridMaxScrollTop(g, clientHeight) == Max(0, headerHeight + g.surface.height - clientHeight)

ScrollStops(maxScrollTop) == {s \in 0..maxScrollTop : s % ScrollStep = 0} \cup {maxScrollTop}

\* SqlExplorerApp.executeQuery when the query succeeds: render the result
\* and enable the download buttons
GridRender(result) ==
    /\ variant = "grid"
    /\ grid' = [GridRenderState(grid, result, env) EXCEPT !.downloadEnabled = TRUE]
    /\ event' = [type |-> "render", threw |-> FALSE]
    /\ UNCHANGED <<variant, env, panel, call, app>>

\* a scroll event of the grid's scroll container, at offset s
GridScroll(s) ==
    /\ variant = "grid"
    /\ grid.scrollContainer = "attached"
    /\ grid' = GridUpdateVisibleRows([grid EXCEPT !.scrollTop = s, !.domWrites = 0],
                                     env.clientHeight)
    /\ event' = [type |-> "scroll", threw |-> FALSE]
    /\ UNCHANGED <<variant, env, panel, call, app>>

\* SqlExplorerApp.executeQuery when the query fails: ResultsGrid.showError
\* and disable the download buttons
GridShowError(error) ==
    /\ variant = "grid"
    /\ LET m == SetInnerHTML(escapeHtml(error))
       IN grid' = [grid EXCEPT !.surface = [BlankSurface EXCEPT !.mode = "error",
                                              !.message = m.text, !.markup = m.markup],
                               !.scrollContainer = Detach(@), !.gridBody = Detach(@),
                               !.downloadEnabled = FALSE, !.domWrites = 1]
    /\ event' = [type |-> "error", threw |-> FALSE]
    /\ UNCHANGED <<variant, env, panel, call, app>>

(***************************************************************************)
(* The results panel (media/results-panel.js).                             *)
(***************************************************************************)
\* columns[colIndex]?.type, NoType when there is no such column
TypeAt(columns, colIndex) == IF colIndex <= Len(columns) THEN columns[colIndex].type ELSE NoType
\* columnWidths[colIndex]; 0 stands for no usable width ("undefinedpx")
WidthAt(columnWidths, colIndex) == IF colIndex <= Len(columnWidths) THEN columnWidths[colIndex] ELSE 0

\* calculateColumnWidths of the panel throws when formatValue throws
PanelWidthsThrow(columns, rows) ==
    \E c \in 1..Len(columns), i \in 1..Min(100, Len(rows)) : PanelFormatThrows(At(rows[i], c))

\* calculateColumnWidths; (name.length + type.length / 2) * CHAR_WIDTH is
\* name.length * 8 + type.length * 4
PanelCalculateColumnWidthsAllRows(columns, rows) ==
    [c \in 1..Len(columns) |->
        LET headerWidth == Len(columns[c].name) * 8 + Len(columns[c].type) * 4 + 24
            maxWidth == SetMax({headerWidth} \cup
                {Len(PanelFormatValue(At(rows[i], c), columns[c].type)) * 8 + 24 :
                    i \in 1..Len(rows)})
        IN Min(300, Max(20, maxWidth))]
PanelCalculateColumnWidths(columns, rows) ==
    [c \in 1..Len(columns) |->
        LET headerWidth == Len(columns[c].name) * 8 + Len(columns[c].type) * 4 + 24
            maxWidth == SetMax({headerWidth} \cup
                {Len(PanelFormatValue(At(rows[i], c), columns[c].type)) * 8 + 24 :
                    i \in 1..Min(100, Len(rows))})
        IN Min(300, Max(20, maxWidth))]

\* one value cell of renderStaticTable: a td with the classes numeric and
\* null-value
PanelStaticCellUnescaped(p, cell, colIndex) ==
    LET col == TypeAt(p.columns, colIndex)
        isNumeric == PanelIsNumericType(col)
        isNull == IsNullish(cell)
        value == IF isNull THEN NULL ELSE PanelFormatValue(cell, col)
        content == SetInnerHTML(value)
    IN [class |-> "cell", of |-> cell, display |-> value,
        text |-> content.text, markup |-> content.markup,
        null |-> isNull, numeric |-> isNumeric,
        width |-> WidthAt(p.columnWidths, colIndex)]
PanelStaticCell(p, cell, colIndex) ==
    LET col == TypeAt(p.columns, colIndex)
        isNumeric == PanelIsNumericType(col)
        isNull == IsNullish(cell)
        value == IF isNull THEN NULL ELSE PanelFormatValue(cell, col)
        content == SetInnerHTML(escapeHtml(value))
    IN [class |-> "cell", of |-> cell, display |-> value,
        text |-> content.text, markup |-> content.markup,
        null |-> isNull, numeric |-> isNumeric,
        width |-> WidthAt(p.columnWidths, colIndex)]

\* one value cell of updateVisibleRows: a div styled for numeric and null
PanelCellUnescaped(p, cell, colIndex) ==
    LET type == TypeAt(p.columns, colIndex)
        isNull == IsNullish(cell)
        value == IF isNull THEN NULL ELSE PanelFormatValue(cell, type)
        content == SetInnerHTML(escapeHtmlIdentity(value))
    IN [class |-> "cell", of |-> cell, display |-> value,
        text |-> content.text, markup |-> content.markup,
        null |-> isNull, numeric |-> PanelIsNumericType(type),
        width |-> WidthAt(p.columnWidths, colIndex)]
PanelCell(p, cell, colIndex) ==
    LET type == TypeAt(p.columns, colIndex)
        isNull == IsNullish(cell)
        value == IF isNull THEN NULL ELSE PanelFormatValue(cell, type)
        content == SetInnerHTML(escapeHtml(value))
    IN [class |-> "cell", of |-> cell, display |-> value,
        text |-> content.text, markup |-> content.markup,
        null |-> isNull, numeric |-> PanelIsNumericType(type),
        width |-> WidthAt(p.columnWidths, colIndex)]

\* the row-number cell that starts a row; rowNumberWidth is 60 in the
\* virtual table and unset (0) in the static table
RowNumberCell(text, rowNumberWidth) ==
    [class |-> "row-number", of |-> Undefined, display |-> text,
     text |-> text, markup |-> FALSE, null |-> FALSE,
     numeric |-> FALSE, width |-> rowNumberWidth]

\* one body row of updateVisibleRows: the row number, then one cell per
\* element of the row
PanelRowPerColumn(p, index, rowNumberWidth) ==
    LET row == p.rows[index + 1]
    IN [index |-> index, top |-> index * ROW_HEIGHT, width |-> 0,
        cells |-> <<RowNumberCell(Digits(index + 1), rowNumberWidth)>> \o
                  [c \in 1..Len(p.columns) |-> PanelCell(p, At(row, c), c)]]
PanelRow(p, index, rowNumberWidth) ==
    LET row == p.rows[index + 1]
    IN [index |-> index, top |-> index * ROW_HEIGHT, width |-> 0,
        cells |-> <<RowNumberCell(Digits(index + 1), rowNumberWidth)>> \o
                  [c \in 1..Len(row) |-> PanelCell(p, row[c], c)]]

\* one body row of renderStaticTable
PanelStaticRow(p, rowIndex) ==
    LET row == p.rows[rowIndex + 1]
    IN [index |-> rowIndex, top |-> 0, width |-> 0,
        cells |-> <<RowNumberCell(Digits(rowIndex + 1), 0)>> \o
                  [c \in 1..Len(row) |-> PanelStaticCell(p, row[c], c)]]

PanelRowThrows(p, index) ==
    LET row == p.rows[index + 1]
    IN \E c \in 1..Len(row) : ~IsNullish(row[c]) /\ PanelFormatThrows(row[c])

PanelHeaderCell(column, width) ==
    LET name == SetInnerHTML(escapeHtml(column.name))
        type == SetInnerHTML(escapeHtml(column.type))
    IN [class |-> "header", text |-> name.text, type |-> type.text,
        markup |-> name.markup \/ type.markup, width |-> width]

PanelHeader(p, rowNumberWidth) ==
    <<[class |-> "row-number", text |-> <<"#">>, type |-> <<>>, markup |-> FALSE,
       width |-> rowNumberWidth]>> \o
    [c \in 1..Len(p.columns) |-> PanelHeaderCell(p.columns[c], p.columnWidths[c])]

\* showEmpty(message) of the panel
PanelEmptySurface(message) ==
    LET m == SetInnerHTML(escapeHtml(message))
    IN [BlankSurface EXCEPT !.mode = "empty", !.message = m.text, !.markup = m.markup]

\* currentResults = null
NoResult == [columns |-> <<>>, rows |-> <<>>, none |-> TRUE]

\* the document the results view starts with
PanelInit ==
    [currentResults |-> NoResult, columns |-> <<>>, rows |-> <<>>, columnWidths |-> <<>>,
     downloadEnabled |-> FALSE, info |-> "No results yet", scrollTop |-> 0,
     listeners |-> <<>>,
     surface |-> PanelEmptySurface(<<"R","u","n">>), domWrites |-> 0]
\* listeners: the onMouseMove / onMouseUp pairs attached to the document, in
\* the order they were attached; each belongs to the resizer of one column
\* (col, counted from 0) and reads the startX and startWidth of its closure;
\* current tells whether that resizer is still in the document

\* renderStaticTable
PanelRenderStaticTable(p) ==
    IF \E i \in 1..Len(p.rows) : PanelRowThrows(p, i - 1)
    THEN [state |-> p, threw |-> TRUE]
    ELSE [state |-> [p EXCEPT !.surface = [BlankSurface EXCEPT
                                !.mode = "static",
                                !.header = PanelHeader(p, 0),
                                !.body = [i \in 1..Len(p.rows) |-> PanelStaticRow(p, i - 1)],
                                !.width = Sum(p.columnWidths) + 60],
                              !.listeners = [k \in 1..Len(p.listeners) |->
                                                [p.listeners[k] EXCEPT !.current = FALSE]],
                              !.domWrites = 1],
          threw |-> FALSE]

PanelBodyRows(p, w) ==
    [k \in 1..Max(0, w.endIndex - w.startIndex) |-> PanelRow(p, w.startIndex + k - 1, 60)]

\* updateVisibleRows(scrollContainer, virtualRows)
PanelUpdateVisibleRows(p, containerHeight) ==
    LET w == PanelWindow(p.scrollTop, containerHeight, Len(p.rows))
    IN IF \E i \in w.startIndex..(w.endIndex - 1) : PanelRowThrows(p, i)
       THEN [state |-> p, threw |-> TRUE]
       ELSE [state |-> [p EXCEPT !.surface.body = PanelBodyRows(p, w), !.domWrites = @ + 1],
             threw |-> FALSE]

\* renderVirtualScrollTable
PanelRenderVirtualScrollTable(p, containerHeight) ==
    PanelUpdateVisibleRows(
        [p EXCEPT !.surface = [BlankSurface EXCEPT
                                 !.mode = "virtual",
                                 !.header = PanelHeader(p, 60),
                                 !.width = Sum(p.columnWidths) + 60,
                                 !.height = Len(p.rows) * ROW_HEIGHT],
                  !.scrollTop = 0, !.domWrites = 1],
        containerHeight)

\* renderResults(data)
PanelRenderResultsFrom100(p, data, containerHeight) ==
    LET p1 == [p EXCEPT !.currentResults = data, !.columns = data.columns,
                        !.rows = data.rows, !.domWrites = 0]
    IN IF Len(p1.rows) = 0
       THEN [state |-> [p1 EXCEPT !.surface = PanelEmptySurface(<<"Q","u","e","r","y">>),
                                  !.downloadEnabled = FALSE, !.domWrites = 1],
             threw |-> FALSE]
       ELSE IF PanelWidthsThrow(p1.columns, p1.rows) THEN [state |-> p1, threw |-> TRUE]
       ELSE LET p2 == [p1 EXCEPT !.columnWidths = PanelCalculateColumnWidths(p1.columns, p1.rows),
                                 !.info = "rows", !.downloadEnabled = TRUE]
            IN IF Len(p2.rows) >= 100 THEN PanelRenderVirtualScrollTable(p2, containerHeight)
               ELSE PanelRenderStaticTable(p2)
PanelRenderResults(p, data, containerHeight) ==
    LET p1 == [p EXCEPT !.currentResults = data, !.columns = data.columns,
                        !.rows = data.rows, !.domWrites = 0]
    IN IF Len(p1.rows) = 0
       THEN [state |-> [p1 EXCEPT !.surface = PanelEmptySurface(<<"Q","u","e","r","y">>),
                                  !.downloadEnabled = FALSE, !.domWrites = 1],
             threw |-> FALSE]
       ELSE IF PanelWidthsThrow(p1.columns, p1.rows) THEN [state |-> p1, threw |-> TRUE]
       ELSE LET p2 == [p1 EXCEPT !.columnWidths = PanelCalculateColumnWidths(p1.columns, p1.rows),
                                 !.info = "rows", !.downloadEnabled = TRUE]
            IN IF Len(p2.rows) > 100 THEN PanelRenderVirtualScrollTable(p2, containerHeight)
               ELSE PanelRenderStaticTable(p2)

PanelMaxScrollTop(p, containerHeight) == Max(0, p.surface.height - containerHeight)

\* message {type: 'showResults', data}
PanelShowResults(data) ==
    /\ variant = "panel"
    /\ LET r == PanelRenderResults(panel, data, env.clientHeight)
       IN /\ panel' = r.state
          /\ event' = [type |-> "render", threw |-> r.threw]
    /\ UNCHANGED <<variant, env, grid, call, app>>

\* a scroll event of the virtual scroll container, at offset s
PanelScroll(s) ==
    /\ variant = "panel"
    /\ panel.surface.mode = "virtual"
    /\ LET r == PanelUpdateVisibleRows([panel EXCEPT !.scrollTop = s, !.domWrites = 0],
                                       env.clientHeight)
       IN /\ panel' = r.state
          /\ event' = [type |-> "scroll", threw |-> r.threw]
    /\ UNCHANGED <<variant, env, grid, call, app>>

\* showError(error) of the results panel
PanelShowErrorState(p, error) ==
    LET m == SetInnerHTML(escapeHtml(error))
    IN [p EXCEPT !.surface = [BlankSurface EXCEPT !.mode = "error",
                                !.message = m.text, !.markup = m.markup],
                 !.info = "Query failed", !.downloadEnabled = FALSE,
                 !.domWrites = 1]

\* message {type: 'showError', error}
PanelShowError(error) ==
    /\ variant = "panel"
    /\ panel' = PanelShowErrorState(panel, error)
    /\ event' = [type |-> "error", threw |-> FALSE]
    /\ UNCHANGED <<variant, env, grid, call, app>>

(***************************************************************************)
(* Column resizing by dragging a resizer.                                  *)
(***************************************************************************)
\* columnWidths[index] = width on a JavaScript array, index counted from 0:
\* an index beyond the length extends the array and leaves the slots in
\* between empty (0)
SetWidth(columnWidths, index, width) ==
    [c \in 1..Max(Len(columnWidths), index + 1) |->
        IF c = index + 1 THEN width ELSE WidthAt(columnWidths, c)]

\* element.style.width = width on the cell at position pos, if there is one
SetCellWidth(cells, pos, width) ==
    [c \in 1..Len(cells) |-> IF c = pos THEN [cells[c] EXCEPT !.width = width] ELSE cells[c]]

\* ResultsGrid.updateColumnWidth(index, width), after columnWidths[index]
\* was assigned: the header cell and the cells of the materialized rows,
\* as far as they are in the document
GridUpdateColumnWidth(g, index, width) ==
    IF g.surface.mode # "grid" THEN g.surface
    ELSE [g.surface EXCEPT
            !.header = SetCellWidth(g.surface.header, index + 1, width),
            !.body = [k \in 1..Len(g.surface.body) |->
                        [g.surface.body[k] EXCEPT
                            !.cells = SetCellWidth(g.surface.body[k].cells, index + 1, width),
                            !.width = Sum(g.columnWidths)]],
            !.width = Sum(g.columnWidths)]

\* ResultsGrid.handleMouseDown(e, index) on the resizer of header cell index
GridMouseDown(index, x) ==
    /\ variant = "grid"
    /\ grid.surface.mode = "grid"
    /\ index < Len(grid.surface.header)
    /\ grid' = [grid EXCEPT !.dragStartIndex = index, !.dragStartX = x,
                            !.dragStartWidth = WidthAt(grid.columnWidths, index + 1),
                            !.listening = TRUE, !.domWrites = 0]
    /\ event' = [type |-> "mousedown", threw |-> FALSE]
    /\ UNCHANGED <<variant, env, panel, call, app>>

\* newWidth of ResultsGrid.handleMouseMove for a pointer at clientX x
GridDragWidthFromCurrent(g, x) ==
    Max(50, WidthAt(g.columnWidths, g.dragStartIndex + 1) + (x - g.dragStartX))
GridDragWidth(g, x) == Max(50, g.dragStartWidth + (x - g.dragStartX))

\* ResultsGrid.handleMouseMove(e), attached to the document; widths up to
\* maxWidth are followed
GridMouseMoveWithin(x, maxWidth) ==
    /\ variant = "grid"
    /\ grid.listening
    /\ LET newWidth == GridDragWidth(grid, x)
           g1 == [grid EXCEPT !.columnWidths = SetWidth(@, grid.dragStartIndex, newWidth),
                              !.domWrites = 0]
       IN /\ newWidth <= maxWidth
          /\ grid' = IF grid.dragStartIndex = -1 THEN [grid EXCEPT !.domWrites = 0]
                     ELSE [g1 EXCEPT !.surface = GridUpdateColumnWidth(g1, grid.dragStartIndex, newWidth)]
    /\ event' = [type |-> "mousemove", threw |-> FALSE, x |-> x]
    /\ UNCHANGED <<variant, env, panel, call, app>>

GridMouseMove(x) == GridMouseMoveWithin(x, MaxDragWidth)

\* a mousemove event of the document while handleMouseMove is not attached
GridIdleMouseMove(x) ==
    /\ variant = "grid"
    /\ ~grid.listening
    /\ grid' = [grid EXCEPT !.domWrites = 0]
    /\ event' = [type |-> "mousemove", threw |-> FALSE, x |-> x]
    /\ UNCHANGED <<variant, env, panel, call, app>>

\* ResultsGrid.handleMouseUp(), attached to the document
GridMouseUpStillAttached ==
    /\ variant = "grid"
    /\ grid.listening
    /\ grid' = [grid EXCEPT !.domWrites = 0]
    /\ event' = [type |-> "mouseup", threw |-> FALSE]
    /\ UNCHANGED <<variant, env, panel, call, app>>
GridMouseUp ==
    /\ variant = "grid"
    /\ grid.listening
    /\ grid' = [grid EXCEPT !.dragStartIndex = -1, !.listening = FALSE, !.domWrites = 0]
    /\ event' = [type |-> "mouseup", threw |-> FALSE]
    /\ UNCHANGED <<variant, env, panel, call, app>>

\* setupColumnResizers, the mousedown listener of the resizer of column col:
\* it sets the startX and startWidth of its closure and attaches its
\* onMouseMove and onMouseUp (attaching the same function again adds nothing)
PanelAttach(listeners, col, x, startWidth) ==
    IF \E k \in 1..Len(listeners) : listeners[k].col = col /\ listeners[k].current
    THEN [k \in 1..Len(listeners) |->
            IF listeners[k].col = col /\ listeners[k].current
            THEN [listeners[k] EXCEPT !.startX = x, !.startWidth = startWidth]
            ELSE listeners[k]]
    ELSE Append(listeners, [col |-> col, startX |-> x, startWidth |-> startWidth,
                            current |-> TRUE])

PanelMouseDown(col, x) ==
    /\ variant = "panel"
    /\ panel.surface.mode = "static"
    /\ col + 1 < Len(panel.surface.header)
    /\ LET attached == PanelAttach(panel.listeners, col, x, WidthAt(panel.columnWidths, col + 1))
       IN /\ Len(attached) <= MaxListeners
          /\ panel' = [panel EXCEPT !.listeners = attached, !.domWrites = 0]
    /\ event' = [type |-> "mousedown", threw |-> FALSE]
    /\ UNCHANGED <<variant, env, grid, call, app>>

\* onMouseMove of one resizer: the width state, the th and the td elements
\* with its data-col-index (the cell after the row number, in a static table)
PanelOnMouseMove(p, listener, x) ==
    LET diff == x - listener.startX
        newWidth == Max(20, Min(600, listener.startWidth + diff))
        p1 == [p EXCEPT !.columnWidths = SetWidth(@, listener.col, newWidth)]
    IN IF p.surface.mode # "static" THEN p1
       ELSE [p1 EXCEPT
               !.surface.header = SetCellWidth(p.surface.header, listener.col + 2, newWidth),
               !.surface.body = [k \in 1..Len(p.surface.body) |->
                                   [p.surface.body[k] EXCEPT
                                       !.cells = SetCellWidth(p.surface.body[k].cells,
                                                              listener.col + 2, newWidth)]]]

\* a mousemove event of the document runs every attached onMouseMove, in
\* the order of attachment
RECURSIVE PanelDispatchMouseMove(_, _, _)
PanelDispatchMouseMove(p, k, x) ==
    IF k > Len(p.listeners) THEN p
    ELSE PanelDispatchMouseMove(PanelOnMouseMove(p, p.listeners[k], x), k + 1, x)

PanelMouseMoveWithin(x, maxWidth) ==
    /\ variant = "panel"
    /\ panel.listeners # <<>>
    /\ panel' = PanelDispatchMouseMove([panel EXCEPT !.domWrites = 0], 1, x)
    /\ \A c \in 1..Len(panel'.columnWidths) : panel'.columnWidths[c] <= maxWidth
    /\ event' = [type |-> "mousemove", threw |-> FALSE, x |-> x]
    /\ UNCHANGED <<variant, env, grid, call, app>>

PanelMouseMove(x) == PanelMouseMoveWithin(x, MaxDragWidth)

\* a mousemove event of the document while no onMouseMove is attached
PanelIdleMouseMove(x) ==
    /\ variant = "panel"
    /\ panel.listeners = <<>>
    /\ panel' = [panel EXCEPT !.domWrites = 0]
    /\ event' = [type |-> "mousemove", threw |-> FALSE, x |-> x]
    /\ UNCHANGED <<variant, env, grid, call, app>>

\* a mouseup event of the document runs every attached onMouseUp: each
\* detaches its own pair
PanelMouseUp ==
    /\ variant = "panel"
    /\ panel.listeners # <<>>
    /\ panel' = [panel EXCEPT !.listeners = <<>>, !.domWrites = 0]
    /\ event' = [type |-> "mouseup", threw |-> FALSE]
    /\ UNCHANGED <<variant, env, grid, call, app>>

(***************************************************************************)
(* The renderers as a state machine: one renderer per behaviour, in an     *)
(* environment that fixes the viewport height and whether a 2d canvas      *)
(* context is available for measuring text.                                *)
(***************************************************************************)
ViewportHeights == {600}

\* SqlExplorerApp and its host: the tables registered in DuckDB and the
\* addFile messages the host has posted to the webview
AppInit == [tables |-> {}, inbox |-> <<>>]

NoEvent == [type |-> "none", threw |-> FALSE]
NoCall == [fn |-> "none"]

Init ==
    /\ variant \in {"grid", "panel"}
    /\ env \in [clientHeight : ViewportHeights, ctx : {"2d", "null"}]
    /\ variant = "panel" => env.ctx = "2d"
    \* the document of the explorer webview is not part of the sources: its
    \* download buttons start enabled or disabled
    /\ grid \in {[GridInit EXCEPT !.downloadEnabled = b] :
                    b \in IF variant = "grid" THEN BOOLEAN ELSE {FALSE}}
    /\ panel = PanelInit
    /\ event = NoEvent
    /\ call = NoCall
    /\ app = AppInit

Next ==
    \/ \E result \in Results : GridRender(result)
    \/ \E s \in ScrollStops(GridMaxScrollTop(grid, env.clientHeight)) : GridScroll(s)
    \/ \E error \in ErrorMessages : GridShowError(error)
    \/ \E data \in Results : PanelShowResults(data)
    \/ \E s \in ScrollStops(PanelMaxScrollTop(panel, env.clientHeight)) : PanelScroll(s)
    \/ \E error \in ErrorMessages : PanelShowError(error)

Spec == Init /\ [][Next]_vars

(***************************************************************************)
(* The renderers with the pointer events of column resizing (SpecDrag):    *)
(* results, errors, scrolling and drags in any order.  A mouseup may be    *)
(* lost (the button is released outside the webview), so a mousedown may   *)
(* follow a mousedown.                                                     *)
(***************************************************************************)
DragResults == {ExampleResult, EmptyResult}
DragErrors == {ImgTag}
\* clientX / pageX of the pointer events: where the button goes down, and
\* where the pointer moves to
DragStartXs == {300}
DragXs == {100, 500}

NextDrag ==
    \/ \E result \in DragResults : GridRender(result)
    \/ \E s \in ScrollStops(GridMaxScrollTop(grid, env.clientHeight)) : GridScroll(s)
    \/ \E error \in DragErrors : GridShowError(error)
    \/ \E index \in 0..1, x \in DragStartXs : GridMouseDown(index, x)
    \/ \E x \in DragXs : GridMouseMove(x)
    \/ GridMouseUp
    \/ \E data \in DragResults : PanelShowResults(data)
    \/ \E error \in DragErrors : PanelShowError(error)
    \/ \E col \in 0..1, x \in DragStartXs : PanelMouseDown(col, x)
    \/ \E x \in DragXs : PanelMouseMove(x)
    \/ PanelMouseUp

SpecDrag == Init /\ [][NextDrag]_vars

(***************************************************************************)
(* Column resizing over the whole range of widths (SpecResize): one small  *)
(* result, drags that reach the widest column either renderer allows, and  *)
(* pointer moves that arrive while no drag is under way.                   *)
(***************************************************************************)
MaxResizeWidth == 700
ResizeResults == {ExampleResult}
ResizeStartXs == {300}
ResizeXs == {100, 900}

InitResize ==
    /\ variant \in {"grid", "panel"}
    /\ env \in [clientHeight : ViewportHeights, ctx : {"2d", "null"}]
    /\ variant = "panel" => env.ctx = "2d"
    /\ grid = GridInit
    /\ panel = PanelInit
    /\ event = NoEvent
    /\ call = NoCall
    /\ app = AppInit

NextResize ==
    \/ \E result \in ResizeResults : GridRender(result)
    \/ \E index \in 0..1, x \in ResizeStartXs : GridMouseDown(index, x)
    \/ \E x \in ResizeXs : GridMouseMoveWithin(x, MaxResizeWidth)
    \/ \E x \in ResizeXs : GridIdleMouseMove(x)
    \/ GridMouseUp
    \/ \E data \in ResizeResults : PanelShowResults(data)
    \/ \E col \in 0..1, x \in ResizeStartXs : PanelMouseDown(col, x)
    \/ \E x \in ResizeXs : PanelMouseMoveWithin(x, MaxResizeWidth)
    \/ \E x \in ResizeXs : PanelIdleMouseMove(x)
    \/ PanelMouseUp

SpecResize == InitResize /\ [][NextResize]_vars

(***************************************************************************)
(* Scrolling and column resizing on a virtualized result (SpecScrollDrag): *)
(* a small and a large result, scroll events and drags in any order.       *)
(***************************************************************************)
ScrollDragResults == {ExampleResult, BigResult(BigRows)}
\* where the pointer of a drag moves to: far enough to the left to bring the
\* column to its minimum width
ScrollDragXs == {100}

\* scroll offsets: the top, one row down (the window stays the same) and the
\* bottom
ScrollDragStops(maxScrollTop) == {s \in {0, ROW_HEIGHT, maxScrollTop} : s <= maxScrollTop}

NextScrollDrag ==
    \/ \E result \in ScrollDragResults : GridRender(result)
    \/ \E s \in ScrollDragStops(GridMaxScrollTop(grid, env.clientHeight)) : GridScroll(s)
    \/ \E index \in 0..1, x \in DragStartXs : GridMouseDown(index, x)
    \/ \E x \in ScrollDragXs : GridMouseMove(x)
    \/ GridMouseUp
    \/ \E data \in ScrollDragResults : PanelShowResults(data)
    \/ \E s \in ScrollDragStops(PanelMaxScrollTop(panel, env.clientHeight)) : PanelScroll(s)
    \/ \E col \in 0..1, x \in DragStartXs : PanelMouseDown(col, x)
    \/ \E x \in ScrollDragXs : PanelMouseMove(x)
    \/ PanelMouseUp

SpecScrollDrag == InitResize /\ [][NextScrollDrag]_vars

(***************************************************************************)
(* The messages of the results panel (SpecMessages): showResults,          *)
(* showError and showStatus in any order, with scroll events.              *)
(***************************************************************************)
\* a row with a cell beyond columns.length whose JSON serialization fails:
\* calculateColumnWidths does not read it, renderStaticTable does
OverlongCyclicResult ==
    Result(<<Column(<<"a">>, INTEGER)>>, <<<<IntNum(1), CyclicObject>>>>)

\* a large result whose unserializable cell lies beyond the 100 rows that
\* calculateColumnWidths samples and beyond the first window
DeepCyclicResult(n) ==
    Result(<<Column(<<"i","d">>, INTEGER), Column(<<"v">>, VARCHAR)>>,
           [i \in 1..n |-> IF i = n - 5 THEN <<IntNum(i), CyclicObject>>
                           ELSE <<IntNum(i), BigCell(i)>>])

MessageResults == {ExampleResult, EmptyResult, CyclicResult, OverlongCyclicResult,
                   BigResult(BigRows), DeepCyclicResult(BigRows)}
Statuses == {"Running query..."}

\* message {type: 'showStatus', status}: updateStatus
PanelShowStatus(status) ==
    /\ variant = "panel"
    /\ panel' = [panel EXCEPT !.info = status, !.domWrites = 1]
    /\ event' = [type |-> "status", threw |-> FALSE]
    /\ UNCHANGED <<variant, env, grid, call, app>>

InitMessages ==
    /\ variant = "panel"
    /\ env \in [clientHeight : ViewportHeights, ctx : {"2d"}]
    /\ grid = GridInit
    /\ panel = PanelInit
    /\ event = NoEvent
    /\ call = NoCall
    /\ app = AppInit

NextMessages ==
    \/ \E data \in MessageResults : PanelShowResults(data)
    \/ \E error \in ErrorMessages : PanelShowError(error)
    \/ \E status \in Statuses : PanelShowStatus(status)
    \/ \E s \in ScrollDragStops(PanelMaxScrollTop(panel, env.clientHeight)) : PanelScroll(s)

SpecMessages == InitMessages /\ [][NextMessages]_vars

(***************************************************************************)
(* The extension host and the results view (SpecHost): queries complete or *)
(* fail in the explorer webview, SqlExplorerPanel forwards them to         *)
(* SqlResultsViewProvider, which posts them to the results webview once    *)
(* the view is resolved.  A message is handled by the results panel when   *)
(* its script listens; one posted while the webview is still loading is    *)
(* either held back by the platform until then or dropped                  *)
(* (Webview.postMessage resolves to false for a message that was not       *)
(* deliverable).                                                           *)
(***************************************************************************)
\* queries issued in one run
MaxQueries == 3

HostResults == {ExampleResult, RaggedResult}
HostErrors == {<<"e","r","r">>}

\* _pendingResults = undefined
NoPending == [seq |-> 0]

\* app in SpecHost: _view and _pendingResults of SqlResultsViewProvider, the
\* state of the results webview, the messages posted to it (outbox) and the
\* 'ready' messages it has posted; queries are numbered as they complete:
\* issued counts them, lastFailed is the number of the latest failed one,
\* stored the number of the latest result stored as pending, shown the
\* number of the result the panel rendered last, delivered the numbers of
\* the results the panel has handled
HostInit ==
    [view |-> "unresolved", pending |-> NoPending, webview |-> "none", outbox |-> <<>>,
     ready |-> 0, issued |-> 0, lastFailed |-> 0, stored |-> 0, shown |-> 0,
     delivered |-> {}]

\* SqlResultsViewProvider.showResults(data)
ProviderShowResults(a, r) ==
    IF a.view = "resolved"
    THEN [a EXCEPT !.outbox = Append(@, [type |-> "showResults", seq |-> r.seq, data |-> r.data])]
    ELSE [a EXCEPT !.pending = r, !.stored = r.seq]

\* SqlResultsViewProvider.showError(error)
ProviderShowError(a, seq, error) ==
    IF a.view = "resolved"
    THEN [a EXCEPT !.outbox = Append(@, [type |-> "showError", seq |-> seq, error |-> error])]
    ELSE a

\* if (this._pendingResults) { this.showResults(...); this._pendingResults = undefined }
FlushPending(a) ==
    IF a.pending # NoPending
    THEN [ProviderShowResults(a, a.pending) EXCEPT !.pending = NoPending]
    ELSE a

\* SqlExplorerPanel._handleMessage, case 'queryResult'
HostQueryResult(data) ==
    /\ variant = "panel"
    /\ app.issued < MaxQueries
    /\ app' = ProviderShowResults([app EXCEPT !.issued = @ + 1],
                                  [seq |-> app.issued + 1, data |-> data])
    /\ event' = [type |-> "queryResult", threw |-> FALSE]
    /\ UNCHANGED <<variant, env, grid, panel, call>>

\* SqlExplorerPanel._handleMessage, case 'queryError'
HostQueryError(error) ==
    /\ variant = "panel"
    /\ app.issued < MaxQueries
    /\ app' = ProviderShowError([app EXCEPT !.issued = @ + 1, !.lastFailed = app.issued + 1],
                                app.issued + 1, error)
    /\ event' = [type |-> "queryError", threw |-> FALSE]
    /\ UNCHANGED <<variant, env, grid, panel, call>>

\* SqlResultsViewProvider.resolveWebviewView: the view becomes visible for
\* the first time, its html is set and the webview starts loading
ResolveWebviewView ==
    /\ variant = "panel"
    /\ app.view = "unresolved"
    /\ app' = FlushPending([app EXCEPT !.view = "resolved", !.webview = "loading"])
    /\ event' = [type |-> "resolve", threw |-> FALSE]
    /\ UNCHANGED <<variant, env, grid, panel, call>>

\* the platform drops a message that was posted before the script of the
\* webview listens
PlatformDropsMessage ==
    /\ variant = "panel"
    /\ app.webview = "loading"
    /\ app.outbox # <<>>
    /\ app' = [app EXCEPT !.outbox = Tail(@)]
    /\ event' = [type |-> "lost", threw |-> FALSE]
    /\ UNCHANGED <<variant, env, grid, panel, call>>

\* init() of results-panel.js: the message listener is attached and 'ready'
\* is posted
WebviewInit ==
    /\ variant = "panel"
    /\ app.webview = "loading"
    /\ app' = [app EXCEPT !.webview = "listening", !.ready = @ + 1]
    /\ event' = [type |-> "init", threw |-> FALSE]
    /\ UNCHANGED <<variant, env, grid, panel, call>>

\* SqlResultsViewProvider._handleMessage, case 'ready'
HostReady ==
    /\ variant = "panel"
    /\ app.ready > 0
    /\ app' = FlushPending([app EXCEPT !.ready = @ - 1])
    /\ event' = [type |-> "ready", threw |-> FALSE]
    /\ UNCHANGED <<variant, env, grid, panel, call>>

\* the onDidChangeVisibility handler, the view being visible
HostVisibilityChange ==
    /\ variant = "panel"
    /\ app.view = "resolved"
    /\ event.type # "visibility"
    /\ app' = FlushPending(app)
    /\ event' = [type |-> "visibility", threw |-> FALSE]
    /\ UNCHANGED <<variant, env, grid, panel, call>>

\* handleMessage of results-panel.js on the oldest message posted to it
WebviewReceive ==
    /\ variant = "panel"
    /\ app.webview = "listening"
    /\ app.outbox # <<>>
    /\ LET m == Head(app.outbox)
           r == PanelRenderResults(panel, m.data, env.clientHeight)
       IN IF m.type = "showResults"
          THEN /\ panel' = r.state
               /\ app' = [app EXCEPT !.outbox = Tail(@), !.shown = m.seq,
                                     !.delivered = @ \cup {m.seq}]
               /\ event' = [type |-> "render", threw |-> r.threw]
          ELSE /\ panel' = PanelShowErrorState(panel, m.error)
               /\ app' = [app EXCEPT !.outbox = Tail(@)]
               /\ event' = [type |-> "error", threw |-> FALSE]
    /\ UNCHANGED <<variant, env, grid, call>>

InitHost ==
    /\ variant = "panel"
    /\ env \in [clientHeight : ViewportHeights, ctx : {"2d"}]
    /\ grid = GridInit
    /\ panel = PanelInit
    /\ event = NoEvent
    /\ call = NoCall
    /\ app = HostInit

NextHost ==
    \/ \E data \in HostResults : HostQueryResult(data)
    \/ \E error \in HostErrors : HostQueryError(error)
    \/ ResolveWebviewView
    \/ PlatformDropsMessage
    \/ WebviewInit
    \/ HostReady
    \/ HostVisibilityChange
    \/ WebviewReceive

SpecHost == InitHost /\ [][NextHost]_vars

(***************************************************************************)
(* SpecQuery: SqlExplorerApp.executeQuery and the export of the results.   *)
(* variant "grid" is the app of media/webview/main.ts, which renders into  *)
(* its own ResultsGrid; variant "panel" is the app that posts the results  *)
(* to the extension host, which forwards them to the results panel.        *)
(***************************************************************************)

\* the trimmed texts of the SQL editor
Sqls == {"", "select a", "select b", "selec"}

\* DuckDBManager.executeQuery(sql): conn.query throws on a statement it
\* cannot run, otherwise the result set of the statement
EngineFails(sql) == sql = "selec"

EngineResult(sql) == IF sql = "select a" THEN ExampleResult ELSE EmptyResult

NoExport == [sql |-> "", posted |-> FALSE]

NothingShown == [seq |-> 0, kind |-> "none"]

\* app in SpecQuery: the editor text, the executions awaiting the engine
\* (numbered as they are issued), the disabled flag of the Run button,
\* lastQuerySql, the messages on their way to the results panel, what the
\* results display shows (the number of the query and whether it is a result
\* or an error), the last export request and the last error notice;
\* succeeded records the SQL of the latest query that succeeded
QueryInit ==
    [editor |-> "", inflight |-> <<>>, runDisabled |-> FALSE, lastQuerySql |-> "",
     issued |-> 0, succeeded |-> "", outbox |-> <<>>, shown |-> NothingShown,
     exported |-> NoExport, notice |-> ""]

\* the user edits the SQL text
EditorSetValue(sql) ==
    /\ app.editor # sql
    /\ app' = [app EXCEPT !.editor = sql]
    /\ event' = [type |-> "edit", threw |-> FALSE]
    /\ UNCHANGED <<variant, env, grid, panel, call>>

\* executeQuery up to its await: nothing for an empty text, otherwise the
\* Run button is disabled and the query is handed to the engine
ExecuteQueryStart(a) ==
    IF a.editor = ""
    THEN a
    ELSE [a EXCEPT !.runDisabled = TRUE, !.issued = @ + 1,
                   !.inflight = Append(@, [seq |-> a.issued + 1, sql |-> a.editor])]

\* a click on the Run button, which a disabled button does not deliver
RunClick ==
    /\ ~app.runDisabled
    /\ app.issued < MaxQueries
    /\ app' = ExecuteQueryStart(app)
    /\ event' = [type |-> "run", threw |-> FALSE]
    /\ UNCHANGED <<variant, env, grid, panel, call>>

\* the Ctrl+Enter command of the editor: onExecute, whatever the state of
\* the Run button
CtrlEnter ==
    /\ app.issued < MaxQueries
    /\ app' = ExecuteQueryStart(app)
    /\ event' = [type |-> "ctrl-enter", threw |-> FALSE]
    /\ UNCHANGED <<variant, env, grid, panel, call>>

\* executeQuery after its await, for the oldest execution in flight (the
\* engine answers the queries of its connection in the order it got them)
ExecuteQueryCompletes ==
    /\ app.inflight # <<>>
    /\ LET q == Head(app.inflight)
           a == [app EXCEPT !.inflight = Tail(@), !.runDisabled = FALSE]
       IN IF EngineFails(q.sql)
          THEN IF variant = "grid"
               THEN /\ LET m == SetInnerHTML(escapeHtml(<<"e","r","r">>))
                       IN grid' = [grid EXCEPT !.surface = [BlankSurface EXCEPT !.mode = "error",
                                                              !.message = m.text, !.markup = m.markup],
                                               !.scrollContainer = Detach(@), !.gridBody = Detach(@),
                                               !.downloadEnabled = FALSE, !.domWrites = 1]
                    /\ app' = [a EXCEPT !.shown = [seq |-> q.seq, kind |-> "error"]]
               ELSE /\ app' = [a EXCEPT !.outbox = Append(@, [type |-> "showError", seq |-> q.seq])]
                    /\ grid' = grid
          ELSE IF variant = "grid"
               THEN /\ grid' = [GridRenderState(grid, EngineResult(q.sql), env)
                                  EXCEPT !.downloadEnabled = TRUE]
                    /\ app' = [a EXCEPT !.succeeded = q.sql,
                                        !.shown = [seq |-> q.seq, kind |-> "result"]]
               ELSE /\ app' = [a EXCEPT !.succeeded = q.sql, !.lastQuerySql = q.sql,
                                        !.outbox = Append(@, [type |-> "showResults", seq |-> q.seq,
                                                              data |-> EngineResult(q.sql)])]
                    /\ grid' = grid
    /\ event' = [type |-> "complete", threw |-> FALSE]
    /\ UNCHANGED <<variant, env, panel, call>>

\* the results panel handles the oldest message forwarded to it
QueryPanelReceive ==
    /\ variant = "panel"
    /\ app.outbox # <<>>
    /\ LET m == Head(app.outbox)
       IN IF m.type = "showResults"
          THEN LET r == PanelRenderResults(panel, m.data, env.clientHeight)
               IN /\ panel' = r.state
                  /\ app' = [app EXCEPT !.outbox = Tail(@),
                                        !.shown = [seq |-> m.seq, kind |-> "result"]]
                  /\ event' = [type |-> "render", threw |-> r.threw]
          ELSE /\ panel' = PanelShowErrorState(panel, <<"e","r","r">>)
               /\ app' = [app EXCEPT !.outbox = Tail(@),
                                     !.shown = [seq |-> m.seq, kind |-> "error"]]
               /\ event' = [type |-> "error", threw |-> FALSE]
    /\ UNCHANGED <<variant, env, grid, call>>

\* SqlExplorerApp.downloadResults of main.ts, on a click on an enabled
\* download button: the current editor text is exported
DownloadResults ==
    /\ variant = "grid"
    /\ grid.downloadEnabled
    /\ app' = [app EXCEPT !.exported =
                   IF app.editor = "" THEN [sql |-> "", posted |-> FALSE]
                   ELSE [sql |-> app.editor, posted |-> ~EngineFails(app.editor)],
               !.notice = IF app.editor # "" /\ EngineFails(app.editor)
                          THEN "Export failed" ELSE ""]
    /\ event' = [type |-> "export", threw |-> FALSE]
    /\ UNCHANGED <<variant, env, grid, panel, call>>

\* SqlExplorerApp.exportResults, on the requestExport message of the host:
\* lastQuerySql is exported
ExportResults ==
    /\ variant = "panel"
    /\ app' = [app EXCEPT !.exported =
                   IF app.lastQuerySql = "" THEN [sql |-> "", posted |-> FALSE]
                   ELSE [sql |-> app.lastQuerySql, posted |-> TRUE],
               !.notice = IF app.lastQuerySql = "" THEN "No query to export" ELSE ""]
    /\ event' = [type |-> "export", threw |-> FALSE]
    /\ UNCHANGED <<variant, env, grid, panel, call>>

InitQuery ==
    /\ variant \in {"grid", "panel"}
    /\ env \in [clientHeight : ViewportHeights, ctx : {"2d"}]
    /\ grid = GridInit
    /\ panel = PanelInit
    /\ event = NoEvent
    /\ call = NoCall
    /\ app = QueryInit

NextQuery ==
    \/ \E sql \in Sqls : EditorSetValue(sql)
    \/ RunClick
    \/ CtrlEnter
    \/ ExecuteQueryCompletes
    \/ QueryPanelReceive
    \/ DownloadResults
    \/ ExportResults

SpecQuery == InitQuery /\ [][NextQuery]_vars

(***************************************************************************)
(* SpecEngine: DuckDBManager.executeQuery on the rows the engine produces. *)
(***************************************************************************)
MAX_ROWS == 10000

\* the largest of the small row counts tried
MaxEngineRows == 60

\* the row counts tried: small ones and those around MAX_ROWS
EngineRowCounts == 0..MaxEngineRows \cup (MAX_ROWS - 1)..(MAX_ROWS + 2)

\* result.toArray() for a query that produces n rows of one column
EngineData(n) == [i \in 1..n |-> <<i>>]

\* DuckDBManager.executeQuery: rows.length = MAX_ROWS when there are more,
\* totalRows: isTruncated ? MAX_ROWS : rows.length
DuckDBExecuteQuery(data) ==
    LET isTruncated == Len(data) > MAX_ROWS
        rows == IF isTruncated THEN SubSeq(data, 1, MAX_ROWS) ELSE data
    IN [rows |-> rows,
        totalRows |-> IF isTruncated THEN MAX_ROWS ELSE Len(rows),
        isTruncated |-> isTruncated]

\* the earlier DuckDBManager.executeQuery: every row, no isTruncated
DuckDBExecuteQueryEarly(data) ==
    [rows |-> data, totalRows |-> Len(data)]

\* app in SpecEngine: the number of rows the engine produced for the last
\* query and what executeQuery returned for it
EngineInit == [n |-> 0, manager |-> "none", result |-> [rows |-> <<>>, totalRows |-> 0]]

ExecuteQuery(n) ==
    /\ app' = [n |-> n, manager |-> "limit", result |-> DuckDBExecuteQuery(EngineData(n))]
    /\ event' = [type |-> "query", threw |-> FALSE]
    /\ UNCHANGED <<variant, env, grid, panel, call>>

ExecuteQueryEarly(n) ==
    /\ app' = [n |-> n, manager |-> "early", result |-> DuckDBExecuteQueryEarly(EngineData(n))]
    /\ event' = [type |-> "query", threw |-> FALSE]
    /\ UNCHANGED <<variant, env, grid, panel, call>>

InitEngine ==
    /\ variant = "panel"
    /\ env \in [clientHeight : ViewportHeights, ctx : {"2d"}]
    /\ grid = GridInit
    /\ panel = PanelInit
    /\ event = NoEvent
    /\ call = NoCall
    /\ app = EngineInit

NextEngine ==
    \/ \E n \in EngineRowCounts : ExecuteQuery(n)
    \/ \E n \in EngineRowCounts : ExecuteQueryEarly(n)

SpecEngine == InitEngine /\ [][NextEngine]_vars

(***************************************************************************)
(* One result replacing another (SpecReplace): results and scroll events   *)
(* in any order; the event of a render keeps the surface it replaced.      *)
(***************************************************************************)
ReplaceResults == {ExampleResult, RaggedResult, CyclicResult,
                   BigResult(BigRows), BigRaggedResult(BigRows + 20)}

GridRenderReplacing(result) ==
    /\ variant = "grid"
    /\ grid' = [GridRenderState(grid, result, env) EXCEPT !.downloadEnabled = TRUE]
    /\ event' = [type |-> "render", threw |-> FALSE, replaced |-> grid.surface]
    /\ UNCHANGED <<variant, env, panel, call, app>>

PanelShowResultsReplacing(data) ==
    /\ variant = "panel"
    /\ LET r == PanelRenderResults(panel, data, env.clientHeight)
       IN /\ panel' = r.state
          /\ event' = [type |-> "render", threw |-> r.threw, replaced |-> panel.surface]
    /\ UNCHANGED <<variant, env, grid, call, app>>

NextReplace ==
    \/ \E result \in ReplaceResults : GridRenderReplacing(result)
    \/ \E s \in ScrollDragStops(GridMaxScrollTop(grid, env.clientHeight)) : GridScroll(s)
    \/ \E data \in ReplaceResults : PanelShowResultsReplacing(data)
    \/ \E s \in ScrollDragStops(PanelMaxScrollTop(panel, env.clientHeight)) : PanelScroll(s)

SpecReplace == InitResize /\ [][NextReplace]_vars

(***************************************************************************)
(* The window computation applied to every scroll offset, viewport height  *)
(* and row count within the bounds (SpecWindow).                           *)
(***************************************************************************)
WindowHeights == {64, 100, 600}

WindowInputs ==
    {[fn |-> "input", scrollTop |-> s, viewportHeight |-> h, rowCount |-> n,
      first |-> 0, last |-> 0] :
        s \in 0..MaxScrollTop, h \in WindowHeights, n \in 1..MaxRowCount}

InitWindow ==
    /\ variant = "none"
    /\ env = [clientHeight |-> 0, ctx |-> "null"]
    /\ grid = GridInit
    /\ panel = PanelInit
    /\ event = NoEvent
    /\ app = AppInit
    /\ call \in WindowInputs
    \* offsets the scroll container of such a grid can reach
    /\ call.scrollTop <= Max(0, headerHeight + call.rowCount * rowHeight - call.viewportHeight)

CallGridWindow ==
    /\ call.fn = "input"
    /\ LET w == GridWindow(call.scrollTop, call.viewportHeight, call.rowCount)
       IN call' = [call EXCEPT !.fn = "grid", !.first = w.firstVisible, !.last = w.lastVisible]
    /\ UNCHANGED <<variant, env, grid, panel, event, app>>

CallPanelWindow ==
    /\ call.fn = "input"
    /\ call.scrollTop <= Max(0, call.rowCount * ROW_HEIGHT - call.viewportHeight)
    /\ LET w == PanelWindow(call.scrollTop, call.viewportHeight, call.rowCount)
       IN call' = [call EXCEPT !.fn = "panel", !.first = w.startIndex, !.last = w.endIndex - 1]
    /\ UNCHANGED <<variant, env, grid, panel, event, app>>

NextWindow == CallGridWindow \/ CallPanelWindow

SpecWindow == InitWindow /\ [][NextWindow]_vars

(***************************************************************************)
(* formatValue applied to numeric cells of every declared type (SpecFormat)*)
(***************************************************************************)
\* 0, 1, 999999999999, 1e12, 1e12 + 0.5, 1e12 + 1, 1_700_000_000_000,
\* 2_000_000_000_000, 1_700_000_000_000_000, each with both signs
FormatMagnitudes ==
    {<<0, 0, 0>>, <<0, 1, 0>>, <<999999, 999999, 0>>, <<1000000, 0, 0>>,
     <<1000000, 0, 5000>>, <<1000000, 1, 0>>, <<1700000, 0, 0>>, <<2000000, 0, 0>>,
     <<1700000000, 0, 0>>}

FormatValues == {Number(neg, m[1], m[2], m[3]) : neg \in BOOLEAN, m \in FormatMagnitudes}

FormatTypes == {TIMESTAMP, <<"D","A","T","E">>, <<"t","i","m","e","s","t","a","m","p","t","z">>,
                VARCHAR, INTEGER, <<"B","I","G","I","N","T">>}

NoDate == [num |-> IntNum(0), div |-> 0]

InitFormat ==
    /\ variant = "none"
    /\ env = [clientHeight |-> 0, ctx |-> "null"]
    /\ grid = GridInit
    /\ panel = PanelInit
    /\ event = NoEvent
    /\ app = AppInit
    /\ call \in {[fn |-> "input", value |-> v, type |-> t, text |-> <<>>, date |-> NoDate] :
                    v \in FormatValues, t \in FormatTypes}

\* ResultsGrid.formatValue(value, type): the text it returns and the
\* argument of the Date it constructs on the way, if it constructs one
CallGridFormatValue ==
    /\ call.fn = "input"
    /\ call' = [call EXCEPT !.fn = "grid",
                            !.text = GridFormatValue(call.value, call.type),
                            !.date = IF IsTemporalType(call.type) /\ call.value.kind = "number"
                                     THEN DateArg(call.value) ELSE NoDate]
    /\ UNCHANGED <<variant, env, grid, panel, event, app>>

\* formatValue(value, type) of the results panel constructs no Date
CallPanelFormatValue ==
    /\ call.fn = "input"
    /\ call' = [call EXCEPT !.fn = "panel",
                            !.text = PanelFormatValue(call.value, call.type),
                            !.date = NoDate]
    /\ UNCHANGED <<variant, env, grid, panel, event, app>>

NextFormat == CallGridFormatValue \/ CallPanelFormatValue

SpecFormat == InitFormat /\ [][NextFormat]_vars

(***************************************************************************)
(* Result sets of about a hundred rows, rendered and scrolled              *)
(* (SpecThreshold).                                                        *)
(***************************************************************************)
ThresholdRows == (100 - ThresholdSpan)..(100 + ThresholdSpan)

\* the result sets rendered around the threshold
ThresholdResults == {BigResult(n) : n \in ThresholdRows}

NextThreshold ==
    \/ \E r \in ThresholdResults : GridRender(r)
    \/ \E s \in ScrollStops(GridMaxScrollTop(grid, env.clientHeight)) : GridScroll(s)
    \/ \E r \in ThresholdResults : PanelShowResults(r)
    \/ \E s \in ScrollStops(PanelMaxScrollTop(panel, env.clientHeight)) : PanelScroll(s)

SpecThreshold == Init /\ [][NextThreshold]_vars

(***************************************************************************)
(* Column sizing applied to two result sets that share their columns and   *)
(* their first hundred rows (SpecWidths).                                  *)
(***************************************************************************)
\* the first hundred rows
WidthHeads ==
    {[i \in 1..100 |-> <<IntNum(i), String(<<"a">>)>>],
     [i \in 1..100 |-> <<IntNum(i), BigCell(i)>>],
     [i \in 1..100 |-> <<IntNum(i), IF i = 100 THEN String(LongText) ELSE Null>>]}

\* the rows at index 100 and beyond
WidthTailRows == {<<IntNum(1000000), String(<<"a">>)>>, <<IntNum(7), String(LongText)>>,
                  <<Null, PlainObject>>}
WidthTails == UNION {[1..n -> WidthTailRows] : n \in 0..MaxTail}

InitWidths ==
    /\ variant = "none"
    /\ env = [clientHeight |-> 0, ctx |-> "2d"]
    /\ grid = GridInit
    /\ panel = PanelInit
    /\ event = NoEvent
    /\ app = AppInit
    /\ call \in {[fn |-> "widths", columns |-> BigResult(0).columns, head |-> h,
                   tailA |-> a, tailB |-> b, widthsA |-> <<>>, widthsB |-> <<>>] :
                    h \in WidthHeads, a \in WidthTails, b \in WidthTails}

\* ResultsGrid.calculateColumnWidths on each of the two result sets
CallGridCalculateColumnWidths ==
    /\ call.fn = "widths"
    /\ call' = [call EXCEPT
                  !.fn = "grid",
                  !.widthsA = GridCalculateColumnWidths(call.columns, call.head \o call.tailA, env.ctx),
                  !.widthsB = GridCalculateColumnWidths(call.columns, call.head \o call.tailB, env.ctx)]
    /\ UNCHANGED <<variant, env, grid, panel, event, app>>

\* calculateColumnWidths of the results panel on each of the two result sets
CallPanelCalculateColumnWidths ==
    /\ call.fn = "widths"
    /\ call' = [call EXCEPT
                  !.fn = "panel",
                  !.widthsA = PanelCalculateColumnWidths(call.columns, call.head \o call.tailA),
                  !.widthsB = PanelCalculateColumnWidths(call.columns, call.head \o call.tailB)]
    /\ UNCHANGED <<variant, env, grid, panel, event, app>>

NextWidths == CallGridCalculateColumnWidths \/ CallPanelCalculateColumnWidths

SpecWidths == InitWidths /\ [][NextWidths]_vars

(***************************************************************************)
(* One cell value of one declared type, materialized by the static table   *)
(* and by the virtual rows of the results panel (SpecCells).               *)
(***************************************************************************)
CellValues ==
    {Null, Undefined, IntNum(7), Number(TRUE, 0, 12, 5000), Number(FALSE, 1700000, 0, 0),
     String(ImgTag), String(LtEntity), String(<<>>), PlainObject, CyclicObject,
     Date(FALSE, 1700000, 0)}

CellTypes == {INTEGER, VARCHAR, TIMESTAMP, <<"d","o","u","b","l","e">>, NoType}

NotMaterialized == [done |-> FALSE, threw |-> FALSE, cell |-> RowNumberCell(<<>>, 0)]

\* the panel holding one column of the declared type (no column for NoType)
\* and one row with the value
PanelOfCell(value, type) ==
    [PanelInit EXCEPT !.columns = IF type = NoType THEN <<>> ELSE <<Column(<<"c">>, type)>>,
                      !.rows = <<<<value>>>>,
                      !.columnWidths = IF type = NoType THEN <<>> ELSE <<100>>]

InitCells ==
    /\ variant = "none"
    /\ env = [clientHeight |-> 0, ctx |-> "null"]
    /\ grid = GridInit
    /\ panel = PanelInit
    /\ event = NoEvent
    /\ app = AppInit
    /\ call \in {[fn |-> "cells", value |-> v, type |-> t,
                   static |-> NotMaterialized, virtual |-> NotMaterialized] :
                    v \in CellValues, t \in CellTypes}

\* the cell of renderStaticTable for the value
CallPanelStaticCell ==
    /\ call.fn = "cells" /\ ~call.static.done
    /\ LET p == PanelOfCell(call.value, call.type)
       IN call' = [call EXCEPT !.static =
                      IF PanelRowThrows(p, 0) THEN [NotMaterialized EXCEPT !.done = TRUE, !.threw = TRUE]
                      ELSE [done |-> TRUE, threw |-> FALSE, cell |-> PanelStaticRow(p, 0).cells[2]]]
    /\ UNCHANGED <<variant, env, grid, panel, event, app>>

\* the cell of updateVisibleRows for the value
CallPanelVirtualCell ==
    /\ call.fn = "cells" /\ ~call.virtual.done
    /\ LET p == PanelOfCell(call.value, call.type)
       IN call' = [call EXCEPT !.virtual =
                      IF PanelRowThrows(p, 0) THEN [NotMaterialized EXCEPT !.done = TRUE, !.threw = TRUE]
                      ELSE [done |-> TRUE, threw |-> FALSE, cell |-> PanelRow(p, 0, 60).cells[2]]]
    /\ UNCHANGED <<variant, env, grid, panel, event, app>>

NextCells == CallPanelStaticCell \/ CallPanelVirtualCell

SpecCells == InitCells /\ [][NextCells]_vars

(***************************************************************************)
(* Files entering the explorer (SpecFiles): dropped on the drop zone,      *)
(* chosen in the drop zone's file input, or chosen in the host's dialog.   *)
(***************************************************************************)
MaxTables == 2
MaxInbox == 1

validExtensions ==
    {<<"c","s","v">>, <<"p","a","r","q","u","e","t">>, <<"x","l","s","x">>, <<"x","l","s">>,
     <<"s","q","l","i","t","e">>, <<"d","b">>, <<"j","s","o","n">>}

\* fileName.toLowerCase().split('.').pop(): the text after the last dot, the
\* whole name when it has no dot
Extension(fileName) ==
    LET lower == toLowerCase(fileName)
        dots == {i \in 1..Len(lower) : lower[i] = "."}
    IN IF dots = {} THEN lower ELSE SubSeq(lower, SetMax(dots) + 1, Len(lower))

isValidFileType(fileName) == Extension(fileName) \in validExtensions

\* the switch of getFileType, and of the host's _getFileType
getFileType(fileName) ==
    LET ext == Extension(fileName)
    IN CASE ext = <<"c","s","v">> -> "csv"
         [] ext = <<"p","a","r","q","u","e","t">> -> "parquet"
         [] ext \in {<<"x","l","s","x">>, <<"x","l","s">>} -> "xlsx"
         [] ext \in {<<"s","q","l","i","t","e">>, <<"d","b">>} -> "sqlite"
         [] ext = <<"j","s","o","n">> -> "json"
         [] OTHER -> "csv"

HostGetFileType(fileName) == getFileType(fileName)

IsWordChar(c) ==
    \/ c \in {Letters[i] : i \in 1..26} \/ c \in {Capitals[i] : i \in 1..26}
    \/ c \in {DigitChars[i] : i \in 1..10} \/ c = "_"

\* replace(/\.[^.]+$/, ''), replace(/[^a-zA-Z0-9_]/g, '_'),
\* replace(/^(\d)/, '_$1'), toLowerCase()
sanitizeTableName(fileName) ==
    LET dots == {i \in 1..Len(fileName) : fileName[i] = "."}
        baseName == IF dots # {} /\ SetMax(dots) < Len(fileName)
                    THEN SubSeq(fileName, 1, SetMax(dots) - 1) ELSE fileName
        word == [i \in 1..Len(baseName) |-> IF IsWordChar(baseName[i]) THEN baseName[i] ELSE "_"]
        named == IF Len(word) > 0 /\ word[1] \in {DigitChars[i] : i \in 1..10}
                 THEN <<"_">> \o word ELSE word
    IN toLowerCase(named)

File(name, content) == [name |-> name, content |-> content]

\* what the engine makes of the bytes: read_csv_auto takes any text,
\* read_parquet, read_json_auto, sqlite3 and XLSX.read take their own format
Readable(content, fileType) ==
    CASE fileType = "csv" -> content \in {"text", "json"}
      [] fileType = "json" -> content = "json"
      [] OTHER -> content = fileType

\* DuckDBManager.registerFile: the registered tables after the call; a
\* reader that throws leaves them as they were
registerFile(tables, tableName, file, fileType) ==
    IF ~Readable(file.content, fileType) THEN tables
    ELSE LET name == IF fileType = "sqlite" THEN tableName \o <<"_","t">> ELSE tableName
         IN {t \in tables : t.name # name} \cup {[name |-> name, fileName |-> file.name]}

Files ==
    {File(<<"a",".","c","s","v">>, "text"),
     File(<<"B",".","C","S","V">>, "text"),
     File(<<"a",".","c","s","v">>, "binary"),
     File(<<"c",".","p","a","r","q","u","e","t">>, "parquet"),
     File(<<"g",".","d","b">>, "sqlite"),
     File(<<"h",".","x","l","s">>, "xlsx"),
     File(<<"2",".","t","a","r",".","j","s","o","n">>, "json"),
     File(<<"n","o","t","e","s",".","t","x","t">>, "text"),
     File(<<"R","E","A","D","M","E">>, "text"),
     File(<<"e",".","e","x","e">>, "binary")}

InitFiles ==
    /\ variant = "none"
    /\ env = [clientHeight |-> 0, ctx |-> "null"]
    /\ grid = GridInit
    /\ panel = PanelInit
    /\ event = NoEvent
    /\ app = AppInit
    /\ call = NoCall

\* handleDroppedFile: the table name and type come from the file's name;
\* an error of registerFile is caught and shown
HandleDroppedFile(a, file) ==
    [a EXCEPT !.tables = registerFile(a.tables, sanitizeTableName(file.name), file,
                                      getFileType(file.name))]

\* at most MaxTables tables are followed
Registers(next) == Cardinality(next.tables) <= MaxTables

\* DropZone.handleDrop: a dropped file of a listed extension is handed on,
\* any other is skipped with a warning
HandleDrop ==
    /\ \E file \in Files :
         LET next == IF isValidFileType(file.name) THEN HandleDroppedFile(app, file) ELSE app
         IN /\ Registers(next)
            /\ app' = next
            /\ event' = [type |-> "drop", threw |-> FALSE]
    /\ UNCHANGED <<variant, env, grid, panel, call>>

\* DropZone.openFilePicker: the change handler of the file input hands on
\* every chosen file; accept only presets the dialog's filter
InputChange ==
    /\ \E file \in Files :
         LET next == HandleDroppedFile(app, file)
         IN /\ Registers(next)
            /\ app' = next
            /\ event' = [type |-> "change", threw |-> FALSE]
    /\ UNCHANGED <<variant, env, grid, panel, call>>

\* SqlExplorerPanel._handlePickFile and addFile: the dialog offers 'All
\* Files'; every chosen file is posted to the webview with its type
HandlePickFile ==
    /\ Len(app.inbox) < MaxInbox
    /\ \E file \in Files :
         app' = [app EXCEPT !.inbox = Append(@, [type |-> "addFile", file |-> file,
                                                  fileType |-> HostGetFileType(file.name)])]
    /\ event' = [type |-> "pickFile", threw |-> FALSE]
    /\ UNCHANGED <<variant, env, grid, panel, call>>

\* SqlExplorerApp.handleAddFile on the next addFile message
HandleAddFile ==
    /\ app.inbox # <<>>
    /\ LET message == Head(app.inbox)
           next == [tables |-> registerFile(app.tables, sanitizeTableName(message.file.name),
                                            message.file, message.fileType),
                    inbox |-> Tail(app.inbox)]
       IN /\ Registers(next)
          /\ app' = next
    /\ event' = [type |-> "addFile", threw |-> FALSE]
    /\ UNCHANGED <<variant, env, grid, panel, call>>

NextFiles == HandleDrop \/ InputChange \/ HandlePickFile \/ HandleAddFile

SpecFiles == InitFiles /\ [][NextFiles]_vars

(***************************************************************************)
(* SpecSchema: the tables of loaded files in the database, in the schema   *)
(* explorer and in the editor autocomplete; results of queries on them.    *)
(***************************************************************************)
\* at most MaxRemovals removals await the engine at a time
MaxRemovals == 2

\* DuckDBManager.mapArrowType(type), typeStr being String(type)
mapArrowType(typeStr) ==
    IF Includes(typeStr, <<"I","n","t","6","4">>) \/ Includes(typeStr, <<"I","n","t","3","2">>)
    THEN INTEGER
    ELSE IF Includes(typeStr, <<"F","l","o","a","t">>) \/ Includes(typeStr, <<"D","o","u","b","l","e">>)
    THEN <<"D","O","U","B","L","E">>
    ELSE IF Includes(typeStr, <<"U","t","f","8">>) \/ Includes(typeStr, <<"S","t","r","i","n","g">>)
    THEN VARCHAR
    ELSE IF Includes(typeStr, <<"B","o","o","l">>) THEN <<"B","O","O","L","E","A","N">>
    ELSE IF Includes(typeStr, <<"D","a","t","e">>) THEN <<"D","A","T","E">>
    ELSE IF Includes(typeStr, <<"T","i","m","e","s","t","a","m","p">>) THEN TIMESTAMP
    ELSE IF Includes(typeStr, <<"D","e","c","i","m","a","l">>) THEN <<"D","E","C","I","M","A","L">>
    ELSE typeStr

\* a column of a loaded file: its name, its data_type in the database and
\* the text of its Arrow type in a query result
FileColumn(name, type, arrow) == [name |-> name, type |-> type, arrow |-> arrow]

\* loaded files: a CSV file with a header cell that holds markup, a CSV file
\* with a header cell that looks like an entity, and a file named <b>.json
\* with a struct column whose field is named <b>
SchemaFiles ==
    {[name |-> <<"t",".","c","s","v">>,
      columns |-> <<FileColumn(<<"i","d">>, INTEGER, <<"I","n","t","3","2">>),
                    FileColumn(ImgTag, VARCHAR, <<"U","t","f","8">>)>>],
     [name |-> <<"u",".","c","s","v">>,
      columns |-> <<FileColumn(LtEntity, VARCHAR, <<"U","t","f","8">>)>>],
     [name |-> <<"<","b",">",".","j","s","o","n">>,
      columns |-> <<FileColumn(<<"s">>,
                               <<"S","T","R","U","C","T","(","\"","<","b",">","\""," ","B","L","O","B",")">>,
                               <<"S","t","r","u","c","t","<","{","<","b",">",":","B","i","n","a","r","y","}",">">>)>>]}

\* the table a loaded file is registered as
FileTable(file) == [name |-> sanitizeTableName(file.name), columns |-> file.columns]

\* DuckDBManager.getTableSchemas: the name and the columns (column_name,
\* data_type) of every table of the database
getTableSchemas(db) ==
    {[name |-> t.name,
      columns |-> [c \in 1..Len(t.columns) |-> Column(t.columns[c].name, t.columns[c].type)]] : t \in db}

\* DuckDBManager.executeQuery on SELECT * FROM the table: one row of NULLs
TableResult(t) ==
    Result([c \in 1..Len(t.columns) |-> Column(t.columns[c].name, mapArrowType(t.columns[c].arrow))],
           <<[c \in 1..Len(t.columns) |-> Null]>>)

\* SchemaExplorer.createTableElement: the table name, the column names and
\* the column types are put into innerHTML as they are
createTableElement(schema) ==
    [schema |-> schema,
     header |-> SetInnerHTML(schema.name),
     columns |-> [c \in 1..Len(schema.columns) |->
                     [name |-> SetInnerHTML(schema.columns[c].name),
                      type |-> SetInnerHTML(schema.columns[c].type)]]]

\* SchemaExplorer.render: one element per schema
ExplorerRender(schemas) == {createTableElement(s) : s \in schemas}

\* sqlEditor.updateTableInfo(schemas.map(...))
TableInfo(schemas) == {[name |-> s.name, columns |-> s.columns] : s \in schemas}

TableNames(tables) == {t.name : t \in tables}

\* app in SpecSchema: the tables of the database, the schemas and the
\* elements of the schema explorer, the tableInfo of the editor, the names
\* of the tables whose DROP awaits the engine, and the last error notice
SchemaInit ==
    [db |-> {}, schemas |-> {}, items |-> {}, tableInfo |-> {}, removing |-> <<>>, notice |-> ""]

\* handleAddFile / handleDroppedFile for a readable file: registerFile, then
\* the schema explorer and the autocomplete are updated from getTableSchemas
LoadFile(file) ==
    /\ LET table == FileTable(file)
           db == {t \in app.db : t.name # table.name} \cup {table}
           schemas == getTableSchemas(db)
       IN app' = [app EXCEPT !.db = db, !.schemas = schemas, !.items = ExplorerRender(schemas),
                             !.tableInfo = TableInfo(schemas)]
    /\ event' = [type |-> "addFile", threw |-> FALSE]
    /\ UNCHANGED <<variant, env, grid, panel, call>>

\* SchemaExplorer.removeTable(tableName), on a click on the remove button of
\* a listed table: the removeTable event starts the handler of the app,
\* which awaits the DROP; the explorer drops the schema and renders
ExplorerRemoveTable(tableName) ==
    /\ tableName \in TableNames(app.schemas)
    /\ Len(app.removing) < MaxRemovals
    /\ LET schemas == {s \in app.schemas : s.name # tableName}
       IN app' = [app EXCEPT !.removing = Append(@, tableName), !.schemas = schemas,
                             !.items = ExplorerRender(schemas)]
    /\ event' = [type |-> "removeTable", threw |-> FALSE]
    /\ UNCHANGED <<variant, env, grid, panel, call>>

\* the removeTable handler of the app after DuckDBManager.removeTable: when
\* the DROP succeeded the autocomplete is updated from getTableSchemas,
\* when it failed the error is shown
RemoveTableCompletes(dropped) ==
    /\ app.removing # <<>>
    /\ LET tableName == Head(app.removing)
           db == {t \in app.db : t.name # tableName}
       IN app' = IF dropped
                 THEN [app EXCEPT !.removing = Tail(@), !.db = db,
                                  !.tableInfo = TableInfo(getTableSchemas(db)), !.notice = ""]
                 ELSE [app EXCEPT !.removing = Tail(@), !.notice = "Failed to remove table"]
    /\ event' = [type |-> "removed", threw |-> ~dropped]
    /\ UNCHANGED <<variant, env, grid, panel, call>>

InitSchema ==
    /\ variant \in {"grid", "panel"}
    /\ env \in [clientHeight : ViewportHeights, ctx : {"2d"}]
    /\ grid = GridInit
    /\ panel = PanelInit
    /\ event = NoEvent
    /\ call = NoCall
    /\ app = SchemaInit

NextSchema ==
    \/ \E file \in SchemaFiles : LoadFile(file)
    \/ \E file \in SchemaFiles : ExplorerRemoveTable(FileTable(file).name)
    \/ \E dropped \in BOOLEAN : RemoveTableCompletes(dropped)
    \/ \E file \in SchemaFiles : FileTable(file) \in app.db /\ GridRender(TableResult(FileTable(file)))
    \/ \E file \in SchemaFiles : FileTable(file) \in app.db /\ PanelShowResults(TableResult(FileTable(file)))

SpecSchema == InitSchema /\ [][NextSchema]_vars

(***************************************************************************)
(* Properties.                                                             *)
(***************************************************************************)
\* the rows whose span [i * ROW_HEIGHT, (i + 1) * ROW_HEIGHT) meets the
\* viewport [scrollTop, scrollTop + viewportHeight]
Intersects(i, scrollTop, viewportHeight) ==
    i * ROW_HEIGHT <= scrollTop + viewportHeight /\ (i + 1) * ROW_HEIGHT > scrollTop
FirstIntersecting(scrollTop) == Floor(scrollTop, ROW_HEIGHT)
LastIntersecting(scrollTop, viewportHeight) == Floor(scrollTop + viewportHeight, ROW_HEIGHT)

WindowComputed == call.fn \in {"grid", "panel"} /\ "rowCount" \in DOMAIN call

\* C1 as stated: the window is exactly the rows that meet the viewport,
\* widened by BUFFER_ROWS rows on each side and clamped to [0, rowCount - 1].
C1_WindowExactBuffer ==
    WindowComputed =>
        /\ call.first = Max(0, FirstIntersecting(call.scrollTop) - BUFFER_ROWS)
        /\ call.last = Min(call.rowCount - 1,
                           LastIntersecting(call.scrollTop, call.viewportHeight) + BUFFER_ROWS)

\* C1 (amended): the window contains every row that meets the viewport; it
\* begins BUFFER_ROWS to BUFFER_ROWS + 2 rows before the first such row and
\* ends BUFFER_ROWS - 1 or BUFFER_ROWS rows after the last one, clamped to
\* [0, rowCount - 1].
C1_WindowContainsVisible ==
    WindowComputed =>
        /\ \A i \in 0..(call.rowCount - 1) :
              Intersects(i, call.scrollTop, call.viewportHeight) =>
                  call.first <= i /\ i <= call.last
        /\ \E a \in BUFFER_ROWS..(BUFFER_ROWS + 2) :
              call.first = Max(0, FirstIntersecting(call.scrollTop) - a)
        /\ \E b \in (BUFFER_ROWS - 1)..BUFFER_ROWS :
              call.last = Min(call.rowCount - 1,
                              LastIntersecting(call.scrollTop, call.viewportHeight) + b)

\* a window of ResultsGrid that is clamped on neither side and begins
\* twelve rows before the first visible row
C1_Witness ==
    /\ call.fn = "grid" /\ "rowCount" \in DOMAIN call
    /\ call.first > 0 /\ call.last < call.rowCount - 1
    /\ call.first = FirstIntersecting(call.scrollTop) - (BUFFER_ROWS + 2)

\* the renderer of this behaviour and what it shows
Active == IF variant = "grid" THEN grid ELSE panel
Virtualized == Active.surface.mode \in {"grid", "virtual"}
Populated == Active.surface.mode \in {"grid", "virtual", "static"}
\* the value cells of a materialized row (without the row-number cell)
ValueCells(row) == {row.cells[c] : c \in {k \in 1..Len(row.cells) : row.cells[k].class = "cell"}}
MaterializedCells == UNION {ValueCells(Active.surface.body[k]) : k \in 1..Len(Active.surface.body)}

\* C2 as stated: a scroll event that follows a window computation at the
\* same scrollTop, on the same result set, replaces no row element.
C2_SecondScrollNoOp ==
    [][(/\ event.type \in {"render", "scroll"} /\ ~event.threw
        /\ event'.type = "scroll"
        /\ grid'.scrollTop = grid.scrollTop /\ grid'.rows = grid.rows
        /\ panel'.scrollTop = panel.scrollTop /\ panel'.rows = panel.rows)
       => grid'.domWrites = 0 /\ panel'.domWrites = 0]_vars

\* C3 as stated: with a 600px viewport at most 39 row elements are
\* materialized by the virtual-scrolling path.
C3_AtMost39Rows ==
    (Virtualized /\ env.clientHeight = 600) => Len(Active.surface.body) <= 39

\* C3 (amended): with a 600px viewport the virtual-scrolling path
\* materializes at most 41 row elements in ResultsGrid and at most 40 in the
\* results panel, whatever the row count.
C3_AtMost41Rows ==
    (Virtualized /\ env.clientHeight = 600) =>
        Len(Active.surface.body) <= (IF variant = "grid" THEN 41 ELSE 40)

\* 41 rows materialized out of more than 100, away from both ends
C3_Witness ==
    /\ variant = "grid" /\ grid.surface.mode = "grid" /\ env.clientHeight = 600
    /\ Len(grid.rows) > 100
    /\ Len(grid.surface.body) = 41
    /\ grid.visibleStart > 0 /\ grid.visibleEnd < Len(grid.rows) - 1

\* a render that computed the column widths of a non-empty result set
WidthsComputed == event.type = "render" /\ ~event.threw /\ Len(Active.rows) > 0

C5_NullRendersAsNULL ==
    /\ \A cell \in MaterializedCells :
          IsNullish(cell.of) => cell.text = NULL /\ cell.display = NULL /\ cell.null
    /\ \A c \in 1..Len(Active.columns), i \in 1..Min(100, Len(Active.rows)) :
          IsNullish(At(Active.rows[i], c)) =>
              /\ GridFormatValue(At(Active.rows[i], c), Active.columns[c].type) = NULL
              /\ PanelFormatValue(At(Active.rows[i], c), Active.columns[c].type) = NULL

\* null cells materialized in a numeric and in a temporal column
C5_Witness ==
    /\ variant = "grid" /\ grid.surface.mode = "grid" /\ grid.rows = MixedResult.rows
    /\ LET body == grid.surface.body
       IN /\ GridIsNumericType(grid.columns[1].type)
          /\ body[1].cells[1].of = Null /\ body[1].cells[1].text = NULL /\ body[1].cells[1].null
          /\ IsTemporalType(grid.columns[3].type)
          /\ body[2].cells[3].of = Null /\ body[2].cells[3].text = NULL /\ body[2].cells[3].null
          /\ body[3].cells[1].of = Undefined /\ body[3].cells[1].null

\* C6: every materialized cell shows its formatted value as literal text:
\* the surface opened no tag for it and its text is the formatted value.
C6_CellsAreLiteralText ==
    \A cell \in MaterializedCells : ~cell.markup /\ cell.text = cell.display

\* a cell value with control markup, materialized as text
C6_Witness ==
    /\ \E cell \in MaterializedCells :
          cell.of = String(ImgTag) /\ cell.text = ImgTag /\ ~cell.markup
    /\ \E cell \in MaterializedCells : cell.of = String(LtEntity) /\ cell.text = LtEntity

FormatComputed == call.fn \in {"grid", "panel"} /\ "value" \in DOMAIN call
TemporalNumber == IsTemporalType(call.type) /\ call.value.kind = "number"

\* C7 as stated: a numeric cell of a temporal column is divided by 1000
\* before the date is constructed exactly when its absolute value is
\* greater than 1e12, and is used as it is otherwise, in every renderer.
C7_DividedIffMagnitudeAbove1e12 ==
    (FormatComputed /\ TemporalNumber) =>
        /\ call.date.num = call.value
        /\ call.date.div = (IF MagnitudeGreaterThan1e12(call.value) THEN 1000 ELSE 1)

\* C8 as stated: 1_700_000_000_000 is used as milliseconds directly, and
\* 2_000_000_000_000 and 1_700_000_000_000_000 are divided by 1000.
C8_BoundaryValues ==
    (call.fn = "grid" /\ "value" \in DOMAIN call /\ TemporalNumber) =>
        /\ call.value = Number(FALSE, 1700000, 0, 0) => call.date.div = 1
        /\ call.value = Number(FALSE, 2000000, 0, 0) => call.date.div = 1000
        /\ call.value = Number(FALSE, 1700000000, 0, 0) => call.date.div = 1000

\* C9 as stated: a populated grid starts its header with the row-index cell
\* and every materialized row r with a row-number cell showing r + 1.
C9_RowNumberColumn ==
    (Populated /\ ~event.threw) =>
        /\ Len(Active.surface.header) > 0
        /\ Active.surface.header[1].class = "row-number"
        /\ \A k \in 1..Len(Active.surface.body) :
              LET row == Active.surface.body[k]
              IN /\ Len(row.cells) > 0
                 /\ row.cells[1].class = "row-number"
                 /\ row.cells[1].text = Digits(row.index + 1)

\* a render of a result set with a row shorter or longer than the columns,
\* none of whose cells fails to format
RaggedRendered ==
    /\ event.type = "render"
    /\ IsRagged(Active)
    /\ \A i \in 1..Len(Active.rows) : \A c \in 1..Len(Active.rows[i]) :
          ~(Active.rows[i][c].kind = "object" /\ Active.rows[i][c].jsonThrows)

\* the materialized rows that are shorter than the columns
ShortRows ==
    {k \in 1..Len(Active.surface.body) :
        Len(Active.rows[Active.surface.body[k].index + 1]) < Len(Active.columns)}

DragsActive ==
    IF variant = "grid" THEN (IF grid.listening THEN 1 ELSE 0) ELSE Len(panel.listeners)
\* what the attached handlers work with
DragState ==
    IF variant = "grid"
    THEN <<grid.dragStartIndex, grid.dragStartX, grid.dragStartWidth, grid.listening>>
    ELSE panel.listeners

\* C11 as stated: the handlers of two drag gestures are never attached
\* together, and a pointer-down that arrives while a drag is active changes
\* nothing of the drag.
C11_AtMostOneDrag ==
    [][/\ DragsActive' <= 1
       /\ (DragsActive > 0 /\ event'.type = "mousedown") => DragState' = DragState]_vars

ErrorShown == Active.surface.mode = "error"

\* C12: a failed query leaves the surface showing the error message as
\* literal text and nothing else, with the download controls disabled, and
\* no event other than the delivery of a result set changes that display or
\* enables the controls.
C12_ErrorStateUntilNextResult ==
    [][/\ event'.type = "error" =>
            /\ Active'.surface.mode = "error"
            /\ Active'.surface.message \in ErrorMessages
            /\ ~Active'.surface.markup
            /\ Active'.surface.header = <<>> /\ Active'.surface.body = <<>>
            /\ ~Active'.downloadEnabled
       /\ (ErrorShown /\ event'.type # "render") =>
            /\ Active'.surface.mode = "error"
            /\ event'.type # "error" => Active'.surface = Active.surface
            /\ ~Active'.downloadEnabled]_vars

\* the error with control markup, shown in place of a populated display and
\* still shown after a pointer event of a drag that was under way
C12_Witness ==
    /\ ErrorShown /\ event.type = "mousemove"
    /\ Active.surface.message = ImgTag /\ ~Active.surface.markup
    /\ Len(Active.rows) > 0
    /\ ~Active.downloadEnabled

\* C13 as stated: no handler that formats cells throws, whatever the cell
\* values are.
C13_FormattingNeverThrows ==
    event.type \in {"render", "scroll"} => ~event.threw

\* C14 as stated: the width state has one entry per column of the current
\* result set, and after a result arrived it holds the widths computed from
\* that result set.
C14_OneWidthPerColumn ==
    /\ Len(Active.columnWidths) = Len(Active.columns)
    /\ (event.type = "render" /\ ~event.threw) =>
          Active.columnWidths =
              IF variant = "grid"
              THEN GridCalculateColumnWidths(grid.columns, grid.rows, env.ctx)
              ELSE PanelCalculateColumnWidths(panel.columns, panel.rows)

BothModesMaterialized == call.fn = "cells" /\ call.static.done /\ call.virtual.done

\* C15: the static table and the virtual rows show the same text for the
\* same value of the same declared type, both as literal text, with the same
\* null marking and the same numeric classification, and one fails exactly
\* when the other does.
C15_StaticAndVirtualAgree ==
    BothModesMaterialized =>
        /\ call.static.threw = call.virtual.threw
        /\ call.static.cell.display = call.virtual.cell.display
        /\ call.static.cell.text = call.virtual.cell.text
        /\ call.static.cell.markup = call.virtual.cell.markup
        /\ call.static.cell.null = call.virtual.cell.null
        /\ call.static.cell.numeric = call.virtual.cell.numeric

\* a value with control markup in a numeric column, materialized by both
C15_Witness ==
    /\ BothModesMaterialized
    /\ call.value = String(ImgTag) /\ call.type = INTEGER
    /\ call.static.cell.text = ImgTag /\ call.virtual.cell.text = ImgTag
    /\ call.static.cell.numeric /\ call.virtual.cell.numeric

\* every row of the result set is an element of the display, none is virtual
AllRowsMaterialized ==
    /\ Active.surface.mode = "static"
    /\ Len(Active.surface.body) = Len(Active.rows)
    /\ \A k \in 1..Len(Active.surface.body) : Active.surface.body[k].index = k - 1

\* C16 as stated: a result set of at most 100 rows has every row
\* materialized, a larger one goes through the virtual-scrolling path.
C16_StaticUpTo100 ==
    (Populated /\ ~event.threw) =>
        IF Len(Active.rows) <= 100 THEN AllRowsMaterialized ELSE Virtualized

\* C16 (amended): in the results panel a result set of at most 100 rows has
\* every row materialized and a larger one is virtualized; ResultsGrid
\* virtualizes every non-empty result set.
C16_PanelStaticUpTo100 ==
    (Populated /\ ~event.threw) =>
        IF variant = "panel"
        THEN IF Len(panel.rows) <= 100
             THEN AllRowsMaterialized
             ELSE Virtualized /\ Len(panel.surface.body) < Len(panel.rows)
        ELSE Virtualized /\ Len(grid.surface.body) < Len(grid.rows)

\* exactly 100 rows in the static table of the panel
C16_Witness ==
    /\ variant = "panel" /\ event.type = "render" /\ ~event.threw
    /\ Len(panel.rows) = 100
    /\ panel.surface.mode = "static" /\ Len(panel.surface.body) = 100

\* the fixed message of the empty state ("No results" in ResultsGrid,
\* "Query returned no results" in the results panel)
EmptyMessage ==
    IF variant = "grid" THEN <<"N","o"," ","r","e","s","u","l","t","s">>
    ELSE <<"Q","u","e","r","y">>

\* C17: a render of a zero-row result set shows the fixed empty message and
\* nothing else, leaves no scroll container in the document and no row
\* materialized; from the empty state only a render or an error changes
\* the display.
C17_EmptyUntilNextRender ==
    [][/\ (event'.type = "render" /\ ~event'.threw /\ Len(Active'.rows) = 0) =>
            /\ Active'.surface.mode = "empty"
            /\ Active'.surface.message = EmptyMessage
            /\ Active'.surface.header = <<>> /\ Active'.surface.body = <<>>
            /\ Active'.surface.height = 0
            /\ variant = "grid" => grid'.scrollContainer # "attached" /\ grid'.gridBody # "attached"
       /\ (Active.surface.mode = "empty" /\ event'.type \notin {"render", "error"}) =>
            Active'.surface = Active.surface]_vars

\* the empty state of a rendered zero-row result set, after a pointer event
\* of a drag that was under way when it arrived
C17_Witness ==
    /\ Active.surface.mode = "empty" /\ Active.surface.message = EmptyMessage
    /\ Len(Active.rows) = 0 /\ Len(Active.columns) > 0
    /\ event.type = "mousemove"

WidthsSized == call.fn \in {"grid", "panel"} /\ "tailA" \in DOMAIN call

\* C18: two result sets with the same columns and the same first hundred
\* rows get the same widths, whatever their later rows hold.
C18_WidthsFromFirst100Rows ==
    WidthsSized => call.widthsA = call.widthsB

\* one result set with a long text at index 100 and one without, sized alike
\* below the maximum
C18_Witness ==
    /\ WidthsSized
    /\ call.tailA = <<>> /\ Len(call.tailB) = 1 /\ call.tailB[1][2] = String(LongText)
    /\ call.widthsA = call.widthsB
    /\ Len(call.widthsA) = 2 /\ call.widthsA[2] < 300

\* C19: without a 2d context ResultsGrid.render sizes every column to 150,
\* one entry per column, and renders the result with those widths.
C19_DefaultWidthWithoutMeasurement ==
    (variant = "grid" /\ env.ctx = "null" /\ event.type = "render") =>
        /\ ~event.threw
        /\ grid.columnWidths = [c \in 1..Len(grid.columns) |-> 150]
        /\ Len(grid.rows) > 0 =>
              /\ grid.surface.mode = "grid" /\ Len(grid.surface.body) > 0
              /\ \A c \in 1..Len(grid.surface.header) : grid.surface.header[c].width = 150
              /\ \A k \in 1..Len(grid.surface.body) :
                    /\ Len(grid.surface.body[k].cells) = Len(grid.columns)
                    /\ \A c \in 1..Len(grid.columns) : grid.surface.body[k].cells[c].width = 150
        /\ Len(grid.rows) = 0 => grid.surface.mode = "empty"

\* three columns sized to 150 and rendered, a text of 40 glyphs among them
C19_Witness ==
    /\ variant = "grid" /\ env.ctx = "null" /\ event.type = "render"
    /\ grid.rows = MixedResult.rows
    /\ grid.columnWidths = <<150, 150, 150>>
    /\ grid.surface.mode = "grid" /\ Len(grid.surface.body) = 5

\* C20: every registered table comes from a file whose extension is one of
\* csv, parquet, xlsx, xls, sqlite, db, json, whichever way the file entered
C20_OnlyListedExtensionsRegistered ==
    \A t \in app.tables : isValidFileType(t.fileName)

\* the last attached handler pair of the panel that resizes column col
LastListener(p, col) ==
    p.listeners[SetMax({k \in 1..Len(p.listeners) : p.listeners[k].col = col})]
DraggedColumns(p) == {p.listeners[k].col : k \in 1..Len(p.listeners)}

\* C21 as stated: a pointer-move of an active drag sets the width of the
\* dragged column to max(MIN_DRAG_WIDTH, startWidth + (currentX - startX)),
\* MIN_DRAG_WIDTH being 50 in ResultsGrid and 20 in the results panel.
C21_WidthFollowsPointer ==
    [][event'.type = "mousemove" =>
         /\ (variant = "grid" /\ grid.listening /\ grid.dragStartIndex # -1) =>
               grid'.columnWidths[grid.dragStartIndex + 1] =
                   Max(50, grid.dragStartWidth + (event'.x - grid.dragStartX))
         /\ variant = "panel" =>
               \A col \in DraggedColumns(panel) :
                   panel'.columnWidths[col + 1] =
                       Max(20, LastListener(panel, col).startWidth
                               + (event'.x - LastListener(panel, col).startX))]_vars

\* C21 (amended): as above in ResultsGrid; in the results panel the width is
\* max(20, min(600, startWidth + (currentX - startX))).  In both the width
\* is a function of the values captured at pointer-down and of the latest
\* pointer position, and is never below the minimum.
C21_WidthFollowsPointerCapped ==
    [][event'.type = "mousemove" =>
         /\ (variant = "grid" /\ grid.listening /\ grid.dragStartIndex # -1) =>
               /\ grid'.columnWidths[grid.dragStartIndex + 1] =
                      Max(50, grid.dragStartWidth + (event'.x - grid.dragStartX))
               /\ grid'.columnWidths[grid.dragStartIndex + 1] >= 50
         /\ variant = "panel" =>
               \A col \in DraggedColumns(panel) :
                   /\ panel'.columnWidths[col + 1] =
                          Max(20, Min(600, LastListener(panel, col).startWidth
                                           + (event'.x - LastListener(panel, col).startX)))
                   /\ panel'.columnWidths[col + 1] >= 20]_vars

\* a pointer-move of the one active drag has brought the dragged column to
\* the minimum width
C21_Witness ==
    /\ event.type = "mousemove" /\ event.x = 100
    /\ DragsActive = 1
    /\ IF variant = "grid"
       THEN /\ grid.dragStartIndex # -1 /\ grid.dragStartWidth > 50
            /\ grid.dragStartWidth + (event.x - grid.dragStartX) < 50
            /\ grid.columnWidths[grid.dragStartIndex + 1] = 50
       ELSE /\ panel.listeners[1].startWidth + (event.x - panel.listeners[1].startX) < 20
            /\ panel.columnWidths[panel.listeners[1].col + 1] = 20

\* the columns whose width entry differs between two width states
ChangedWidths(before, after) ==
    {c \in 1..Max(Len(before), Len(after)) : WidthAt(before, c) # WidthAt(after, c)}

\* C22 as stated: between two renders the column widths change only by a
\* pointer-move of an active drag, such a move changes the entry of one
\* column only, and a scroll event changes no width.
C22_OnlyDraggedColumnChanges ==
    [][/\ event'.type \notin {"render", "mousemove"} =>
            Active'.columnWidths = Active.columnWidths
       /\ event'.type = "mousemove" =>
            /\ DragsActive = 0 => Active'.columnWidths = Active.columnWidths
            /\ Cardinality(ChangedWidths(Active.columnWidths, Active'.columnWidths)) <= 1]_vars

\* the header cell of column c (counted from 1) and the cells of column c in
\* the materialized rows; the panel puts a row-number cell before them
ColumnCellWidths(c) ==
    LET pos == IF variant = "grid" THEN c ELSE c + 1
    IN {Active.surface.header[pos].width} \cup
       {Active.surface.body[k].cells[pos].width :
           k \in {j \in 1..Len(Active.surface.body) : pos <= Len(Active.surface.body[j].cells)}}

\* C23 as stated: in every populated display the header cell and every
\* materialized body cell of a column are as wide as the width state says.
C23_CellsFollowWidthState ==
    (Populated /\ ~event.threw) =>
        \A c \in 1..Len(Active.columns) : ColumnCellWidths(c) = {WidthAt(Active.columnWidths, c)}

\* the width the display gives its content: the header and the rows of
\* ResultsGrid, the wrapper of the panel's table
TrackedWidths(r) ==
    IF variant = "grid"
    THEN {r.surface.width} \cup {r.surface.body[k].width : k \in 1..Len(r.surface.body)}
    ELSE {r.surface.width}

\* C24 as stated: after a pointer-move of a drag the tracked content width
\* is the sum of the column widths, plus the 60 of the row-number column in
\* the results panel.
C24_ContentWidthIsSum ==
    [][(event'.type = "mousemove" /\ DragsActive > 0 /\ Populated) =>
          TrackedWidths(Active') =
              {Sum(Active'.columnWidths) + (IF variant = "panel" THEN 60 ELSE 0)}]_vars

\* C25: a pointer-up leaves no move or up handler attached and no drag
\* index set, and a pointer-move that arrives while no handler is attached
\* changes no column width and nothing of the display.
C25_PointerUpEndsDrag ==
    [][/\ event'.type = "mouseup" =>
            /\ DragsActive' = 0
            /\ variant = "grid" => grid'.dragStartIndex = -1
       /\ (DragsActive = 0 /\ event'.type = "mousemove") =>
            /\ Active'.columnWidths = Active.columnWidths
            /\ Active'.surface = Active.surface]_vars

\* a pointer-move has arrived after the pointer-up of a drag that resized a
\* column of the displayed result
C25_Witness ==
    /\ event.type = "mousemove" /\ DragsActive = 0 /\ Populated
    /\ variant = "grid" => grid.dragStartIndex = -1
    /\ Active.columnWidths #
           IF variant = "grid"
           THEN GridCalculateColumnWidths(grid.columns, grid.rows, env.ctx)
           ELSE PanelCalculateColumnWidths(panel.columns, panel.rows)

\* the widths the sizing engine computes for the result set on display
ComputedWidths(r) ==
    IF variant = "grid" THEN GridCalculateColumnWidths(r.columns, r.rows, env.ctx)
    ELSE PanelCalculateColumnWidths(r.columns, r.rows)

\* C26 as stated: right after a result set is rendered the column widths
\* are the ones the sizing engine computes for it, whatever the widths were
\* before.
C26_RenderRecomputesWidths ==
    [][(event'.type = "render" /\ ~event'.threw) =>
          Active'.columnWidths = ComputedWidths(Active')]_vars

\* the window updateVisibleRows computes at scroll offset s, as inclusive
\* row indices
WindowAt(s) ==
    IF variant = "grid"
    THEN GridWindow(s, env.clientHeight, Len(grid.rows))
    ELSE LET w == PanelWindow(s, env.clientHeight, Len(panel.rows))
         IN [firstVisible |-> w.startIndex, lastVisible |-> w.endIndex - 1]
\* the window of the last updateVisibleRows
LastWindow == WindowAt(Active.scrollTop)

\* the last handler was one that computes a window: a scroll, or a render
\* that reached updateVisibleRows
WindowComputedLast ==
    event.type = "scroll" \/ (event.type = "render" /\ ~event.threw)

\* C27 as stated: in every populated state of a virtual renderer the
\* materialized rows are the rows of the last computed window, in order, one
\* per index with none left from an earlier window, each placed at its index
\* times ROW_HEIGHT.
C27_MaterializedRowsAreTheWindow ==
    (Virtualized /\ WindowComputedLast) =>
        /\ Len(Active.surface.body) = Max(0, LastWindow.lastVisible - LastWindow.firstVisible + 1)
        /\ \A k \in 1..Len(Active.surface.body) :
              /\ Active.surface.body[k].index = LastWindow.firstVisible + k - 1
              /\ Active.surface.body[k].top = Active.surface.body[k].index * ROW_HEIGHT
        /\ variant = "grid" =>
              /\ grid.visibleStart = LastWindow.firstVisible
              /\ grid.visibleEnd = LastWindow.lastVisible

\* the events of scrolling and of a column drag
ScrollOrDragEvents == {"scroll", "mousedown", "mousemove", "mouseup"}

\* C28: in every populated state of a virtual renderer the height of the
\* body placeholder is rows.length * ROW_HEIGHT for the current result set,
\* and no scroll or drag event changes it.
C28_PlaceholderHeightIsTotal ==
    /\ [](Virtualized => Active.surface.height = Len(Active.rows) * ROW_HEIGHT)
    /\ [][event'.type \in ScrollOrDragEvents =>
              Active'.surface.height = Active.surface.height]_vars

\* the scroll offsets the scroll container can reach
ReachableOffsets ==
    0..(IF variant = "grid" THEN GridMaxScrollTop(grid, env.clientHeight)
        ELSE PanelMaxScrollTop(panel, env.clientHeight))

\* C29: in every populated state of a virtual renderer and at every scroll
\* offset the container can reach, the computed window satisfies
\* 0 <= firstVisible <= lastVisible <= rowCount - 1.
C29_WindowWithinResult ==
    Virtualized =>
        \A s \in ReachableOffsets :
            /\ 0 <= WindowAt(s).firstVisible
            /\ WindowAt(s).firstVisible <= WindowAt(s).lastVisible
            /\ WindowAt(s).lastVisible <= Len(Active.rows) - 1

\* the row element the current renderer creates for row index i of the
\* current result set
FreshRow(i) ==
    IF variant = "grid" THEN createRow(grid, i)
    ELSE IF panel.surface.mode = "virtual" THEN PanelRow(panel, i, 60)
    ELSE PanelStaticRow(panel, i)

\* the row indices of the materialized rows of a surface
RowIndices(surface) == [k \in 1..Len(surface.body) |-> surface.body[k].index]

\* C30 as stated: after a new non-empty result set is rendered, rows are
\* materialized and every one of them is the row of the new result set at
\* its index, also when the window is the one materialized for the previous
\* result set; no row of the previous result set remains.
C30_RenderShowsNewResult ==
    (event.type = "render" /\ Len(Active.rows) > 0) =>
        /\ Len(Active.surface.body) > 0
        /\ \A k \in 1..Len(Active.surface.body) :
              /\ Active.surface.body[k].index \in 0..(Len(Active.rows) - 1)
              /\ Active.surface.body[k] = FreshRow(Active.surface.body[k].index)

\* the display of the results panel shows a non-empty result set
PanelShowsResult == panel.surface.mode \in {"static", "virtual"}

\* C31 as stated: in the results panel a showResults message with at least
\* one row enables the download buttons, a showResults message with zero
\* rows and a showError message disable them, a showStatus message leaves
\* them unchanged, and they are enabled exactly when the display shows a
\* non-empty result set.
C31_DownloadFollowsDisplay ==
    [][variant = "panel" =>
          /\ (event'.type = "render" /\ Len(panel'.currentResults.rows) > 0) =>
                panel'.downloadEnabled
          /\ (event'.type = "render" /\ Len(panel'.currentResults.rows) = 0) =>
                ~panel'.downloadEnabled
          /\ event'.type = "error" => ~panel'.downloadEnabled
          /\ event'.type = "status" => panel'.downloadEnabled = panel.downloadEnabled
          /\ panel'.downloadEnabled <=> PanelShowsResult']_vars

\* no message to the results webview is under way and no result is pending
HostQuiescent == app.outbox = <<>> /\ app.pending = NoPending

\* C32 as stated: once a query has failed, the results panel does not
\* afterwards display the rows of a query that completed before that
\* failure (judged when no message is under way); a result stored as
\* pending is not shown after a later query error.
C32_NoStaleRowsAfterFailure ==
    (HostQuiescent /\ PanelShowsResult) => app.shown > app.lastFailed

\* the numbers of the results posted to the webview and not yet handled
InOutbox == {app.outbox[k].seq : k \in {j \in 1..Len(app.outbox) : app.outbox[j].type = "showResults"}}

C34_DragKeepsToItsResult ==
    [][(event.type = "render" /\ event'.type = "mousemove") =>
          Active'.columnWidths = Active.columnWidths]_vars

\* C35: while an execution is in flight the Run button is disabled, and once
\* every execution has completed and its message has been handled the results
\* display shows the result or error of the query issued last
C35_OverlappingExecutions ==
    /\ app.inflight # <<>> => app.runDisabled
    /\ (app.inflight = <<>> /\ app.outbox = <<>> /\ app.issued > 0) => app.shown.seq = app.issued

\* C36: an export request exports the SQL of the last query that succeeded;
\* when none has succeeded it reports 'No query to export' and posts no
\* downloadResults message
C36_ExportsLastSuccessfulQuery ==
    event.type = "export" =>
        IF app.succeeded = ""
        THEN app.exported = NoExport /\ app.notice = "No query to export"
        ELSE app.exported = [sql |-> app.succeeded, posted |-> TRUE]

\* C37: for a query on which the engine produces n rows, executeQuery returns
\* min(n, 10000) rows, isTruncated = (n > 10000) and totalRows = n
C37_TruncationKeepsTotal ==
    event.type = "query" =>
        /\ Len(app.result.rows) = Min(app.n, MAX_ROWS)
        /\ "isTruncated" \in DOMAIN app.result
        /\ app.result.isTruncated = (app.n > MAX_ROWS)
        /\ app.result.totalRows = app.n

\* the header cells of the columns, in column order
HeaderColumns(surface) == SelectSeq(surface.header, LAMBDA cell : cell.class = "header")

\* C38: every column name, column type label and table name of a loaded file
\* reaches the display as text: the grid header and the schema explorer show
\* the name and the type as they are and no markup is parsed out of them
C38_NamesAreEscaped ==
    /\ LET cells == HeaderColumns(Active.surface)
       IN \A c \in 1..Len(cells) :
              /\ ~cells[c].markup
              /\ cells[c].text = Active.columns[c].name
              /\ cells[c].type = Active.columns[c].type
    /\ \A item \in app.items :
          /\ ~item.header.markup /\ item.header.text = item.schema.name
          /\ \A c \in 1..Len(item.columns) :
                /\ ~item.columns[c].name.markup /\ ~item.columns[c].type.markup
                /\ item.columns[c].name.text = item.schema.columns[c].name
                /\ item.columns[c].type.text = item.schema.columns[c].type

\* C39: after a table removal requested from the schema explorer has
\* completed, with the DROP succeeded or failed, the tables listed in the
\* schema explorer are the tables of the database and of the autocomplete
C39_RemovalKeepsListsInSync ==
    (event.type = "removed" /\ app.removing = <<>>) =>
        /\ TableNames(app.schemas) = TableNames(app.db)
        /\ TableNames(app.db) = TableNames(app.tableInfo)

====
